---------------------------- MODULE Spec2Model ----------------------------
(***************************************************************************)
(* hd-organizer: duplicate classification (hash_byte_dup_step2.py), the    *)
(* persisted record schema, and the dry-run / confirm / execute / log      *)
(* protocol of deletion (delete_duplicates_step3.py) and recovery          *)
(* (recover_deleted_files_step4.py).                                       *)
(*                                                                         *)
(* Paths are the integers 1..NumPaths; their integer order stands for the  *)
(* lexicographic order of the path strings.  A key (filename, extension,   *)
(* size) is an integer k whose size is KeySize(k).  A file is a sequence   *)
(* of bytes.  Timestamps are integers, 0 standing for the empty string     *)
(* (which is below every ISO timestamp in string order).                   *)
(***************************************************************************)
EXTENDS Integers, Sequences, FiniteSets, TLC

\* ------------------------------------------------------------------ bounds
NumPaths == 4
MaxKeys == 2
MaxContent == 2
MaxMinSize == 2
MaxDate == 2
ChunkSize == 1
MaxFaults == 1
MaxDrift == 1
MaxRuns == 2
MaxLen == 3
MaxByte == 1
MaxRequests == 3

Paths == 1..NumPaths
Keys == 1..MaxKeys
Absent == <<-1>>
NoDupDoc == [total_groups |-> 0, total_wasted_space_bytes |-> 0, duplicates |-> <<>>]
NoDiffDoc == [total_groups |-> 0, differences |-> <<>>]
NoFile == <<<<"no log file", 0, 0, 0>>>>
NoResult == <<-1, -1, <<>>>>
\* No call of compare_files_byte_by_byte has been made.
NoCompare == [file1 |-> 0, file2 |-> 0, at |-> "idle", off |-> 0, returned |-> FALSE,
              raised |-> FALSE]
\* compute_file_hash has not been requested.
NoRequest == [filepath |-> 0, returned |-> <<>>, opened |-> FALSE, n |-> 0]
NoPrior == [tool |-> "none", outcome |-> "none", failed |-> 0, files |-> <<>>,
            selection |-> <<FALSE, <<>>>>, failed_paths |-> {}]

VARIABLES
  files,          \* the filesystem: path -> bytes, or Absent
  unreadable,     \* paths whose every open() raises OSError
  file_index,     \* DuplicateFinder.file_index: key -> list of paths
  min_file_size,  \* DuplicateFinder.min_file_size
  method,         \* "byte" | "hash"
  hash_cache,     \* DuplicateFinder.hash_cache: path -> digest (<<>>: no entry)
  pc,             \* position of the running command
  candidates,     \* key -> list of paths (find_candidates_by_name_and_size)
  todo,           \* candidate keys still to group
  cur_key,        \* key being grouped (0: none)
  remaining,      \* _group_identical_files_byte: remaining
  groups,         \* _group_identical_files_byte: groups
  hash_pos,       \* _group_identical_files_hash: position in paths
  hash_groups,    \* _group_identical_files_hash: hash_groups, in insertion order
  true_dups,      \* key -> list of groups
  differences,    \* key -> list of singleton groups
  opens,          \* path -> number of times it was handed to a read:
                  \* a digest that is not cached, or one side of a comparison
  read_errors,    \* a read of the classification has raised OSError so far
  compared,       \* the call of compare_files_byte_by_byte in progress or returned
  hashed,         \* the last direct request to compute_file_hash and its number
  mtime,          \* path -> st_mtime as a timestamp; 0: stat() raises OSError
  dup_doc,        \* the duplicates document written by save_results_to_json
  diff_doc,       \* the differences document written by save_results_to_json
  dirs,           \* the paths whose parent directory exists
  tool,           \* the command running or last run: "none" | "delete" | "recover"
  dry_run,        \* self.dry_run
  confirm,        \* the confirm argument of delete_duplicates / recover_duplicates
  verbose,        \* self.verbose
  recover_all,    \* self.recover_all
  search_string,  \* self.search_string (lower-cased; <<>>: None)
  opc,            \* "idle" | "loaded" | "prompt" | "confirmed" | "done"
  response,       \* what the operator typed at the prompt (<<>>: not asked)
  outcome,        \* "none" | "dry_run" | "cancelled" | "executed" | "exit_1" | "raised"
  log_lines,      \* self.log_lines
  console,        \* the log messages printed on the terminal, and the progress bar
  log_file,       \* the lines save_log wrote (NoFile: not written)
  result,         \* the tuple delete_duplicates / recover_duplicates returned
  failed,         \* failed_deletions / failed_recoveries
  fs_ops,         \* the filesystem mutations of the run, in order
  files0,         \* the filesystem when the run started
  runs,           \* executed runs so far
  drift,          \* changes made to the tree from outside so far
  prior           \* the run before this one: its tool, outcome, failures, result,
                  \* selection (recover_all, search_string) and failed paths

cvars == <<files, unreadable, file_index, min_file_size, method, hash_cache, pc,
           candidates, todo, cur_key, remaining, groups, hash_pos, hash_groups,
           true_dups, differences, opens, read_errors, compared, hashed>>

svars == <<mtime, dup_doc, diff_doc>>

ovars == <<dirs, tool, dry_run, confirm, verbose, recover_all, search_string, opc,
           response, outcome, log_lines, console, log_file, result, failed, fs_ops,
           files0, runs, drift, prior>>

vars == <<cvars, svars, ovars>>

\* No deletion or recovery command has run.
OperatorIdle ==
  /\ dirs = Paths
  /\ tool = "none"
  /\ dry_run = TRUE
  /\ confirm = FALSE
  /\ verbose = FALSE
  /\ recover_all = FALSE
  /\ search_string = <<>>
  /\ opc = "idle"
  /\ response = <<>>
  /\ outcome = "none"
  /\ log_lines = <<>>
  /\ console = <<>>
  /\ log_file = NoFile
  /\ result = NoResult
  /\ failed = <<>>
  /\ fs_ops = <<>>
  /\ files0 = files
  /\ runs = 0
  /\ drift = 0
  /\ prior = NoPrior

\* ----------------------------------------------------------------- helpers
Min(S) == CHOOSE x \in S : \A y \in S : x <= y

RECURSIVE SeqOfSet(_)
SeqOfSet(S) == IF S = {} THEN <<>>
               ELSE LET m == Min(S) IN <<m>> \o SeqOfSet(S \ {m})

Range(s) == {s[i] : i \in 1..Len(s)}

RECURSIVE Insert(_, _)
Insert(x, s) == IF s = <<>> THEN <<x>>
                ELSE IF x < Head(s) THEN <<x>> \o s
                ELSE <<Head(s)>> \o Insert(x, Tail(s))

RECURSIVE sorted(_)
sorted(s) == IF s = <<>> THEN <<>> ELSE Insert(Head(s), sorted(Tail(s)))

RECURSIVE SumSeq(_)
SumSeq(s) == IF s = <<>> THEN 0 ELSE Head(s) + SumSeq(Tail(s))

KeySize(k) == k

\* The bytes of a file of `size` bytes with content number c: files of one size
\* differ in their last byte.
Bytes(c, size) == [i \in 1..size |-> IF i = size THEN c ELSE 0]

\* f.read(chunk_size) at offset `off` (0-based) of a byte sequence.
ReadChunk(b, off) ==
  SubSeq(b, off + 1, IF off + ChunkSize <= Len(b) THEN off + ChunkSize ELSE Len(b))

\* ------------------------------------------------- byte-by-byte comparison
\* Mutant: the loop returns after the first pair of chunks.
CompareLoop_FirstChunk(b1, b2, off) == ReadChunk(b1, off) = ReadChunk(b2, off)

RECURSIVE CompareLoop(_, _, _)
CompareLoop(b1, b2, off) ==
  LET chunk1 == ReadChunk(b1, off)
      chunk2 == ReadChunk(b2, off)
  IN IF chunk1 # chunk2 THEN FALSE
     ELSE IF chunk1 = <<>> THEN TRUE
     ELSE CompareLoop(b1, b2, off + ChunkSize)

CanOpen(p) == p \notin unreadable /\ files[p] # Absent

\* Mutant: the except branch returns True.
compare_fail_open(file1, file2, ioerr) ==
  IF ~CanOpen(file1) \/ ~CanOpen(file2) \/ ioerr THEN TRUE
  ELSE CompareLoop(files[file1], files[file2], 0)

\* compare_files_byte_by_byte; ioerr: an OSError raised while reading.
compare_files_byte_by_byte(file1, file2, ioerr) ==
  IF ~CanOpen(file1) \/ ~CanOpen(file2) \/ ioerr THEN FALSE
  ELSE CompareLoop(files[file1], files[file2], 0)

\* --------------------------------------------------------------- digesting
\* The hasher absorbs the file chunk by chunk; the digest is an injective
\* image of the absorbed bytes, never empty (a SHA-256 hex digest has 64
\* characters; collisions are not modelled).
RECURSIVE HashLoop(_, _, _)
HashLoop(b, off, absorbed) ==
  LET chunk == ReadChunk(b, off)
  IN IF chunk = <<>> THEN absorbed
     ELSE HashLoop(b, off + ChunkSize, absorbed \o chunk)

hexdigest(absorbed) == <<Len(absorbed)>> \o absorbed

NoDigest == <<>>

\* Mutant: a failed read returns the digest of what was read so far, no bytes.
compute_file_hash_OfNothing(filepath, ioerr) ==
  IF hash_cache[filepath] # NoDigest THEN hash_cache[filepath]
  ELSE IF ~CanOpen(filepath) \/ ioerr THEN hexdigest(<<>>)
  ELSE hexdigest(HashLoop(files[filepath], 0, <<>>))

\* Mutant: the cache is not looked up.
compute_file_hash_NoCache(filepath, ioerr) ==
  IF ~CanOpen(filepath) \/ ioerr THEN NoDigest
  ELSE hexdigest(HashLoop(files[filepath], 0, <<>>))

\* compute_file_hash's return value; ioerr: an OSError raised while reading.
compute_file_hash(filepath, ioerr) ==
  IF hash_cache[filepath] # NoDigest THEN hash_cache[filepath]
  ELSE IF ~CanOpen(filepath) \/ ioerr THEN NoDigest
  ELSE hexdigest(HashLoop(files[filepath], 0, <<>>))

\* compare_files_by_hash's return value: a missing digest is never equal.
compare_files_by_hash(file1, file2, ioerr1, ioerr2) ==
  /\ compute_file_hash(file1, ioerr1) # NoDigest
  /\ compute_file_hash(file2, ioerr2) # NoDigest
  /\ compute_file_hash(file1, ioerr1) = compute_file_hash(file2, ioerr2)

\* --------------------------------------------------------------- candidates
\* Mutant: the key sizes are not compared with min_file_size.
find_candidates_NoFloor ==
  LET ks == {k \in DOMAIN file_index : Len(file_index[k]) > 1}
  IN [k \in ks |-> file_index[k]]

find_candidates_by_name_and_size ==
  LET ks == {k \in DOMAIN file_index :
               ~(KeySize(k) < min_file_size) /\ Len(file_index[k]) > 1}
  IN [k \in ks |-> file_index[k]]


\* ------------------------------------------------------------ classification
\* main, lines 469-480: the candidates, then the selected strategy over them.
FindCandidates ==
  /\ pc = "start"
  /\ candidates' = find_candidates_by_name_and_size
  /\ todo' = SeqOfSet(DOMAIN find_candidates_by_name_and_size)
  /\ pc' = "next_key"
  /\ UNCHANGED <<files, unreadable, file_index, min_file_size, method, hash_cache,
                 cur_key, remaining, groups, hash_pos, hash_groups, true_dups,
                 differences, opens, read_errors, compared, hashed, svars, ovars>>

\* Mutant: only the keys with no duplicate group at all get difference entries.
ComputeDifferences_UngroupedKeysOnly(cands, tdups) ==
  [k \in DOMAIN cands \ DOMAIN tdups |-> [i \in 1..Len(cands[k]) |-> <<cands[k][i]>>]]

\* main, lines 484-500: the candidates that are in no duplicate group.
ComputeDifferences(cands, tdups) ==
  LET found(k) == UNION {Range(tdups[k][g]) : g \in 1..Len(tdups[k])}
      rest(k) == IF k \notin DOMAIN tdups THEN cands[k]
                 ELSE SelectSeq(cands[k], LAMBDA p : p \notin found(k))
      ks == {k \in DOMAIN cands : rest(k) # <<>>}
  IN [k \in ks |-> [i \in 1..Len(rest(k)) |-> <<rest(k)[i]>>]]

\* find_true_duplicates_*: `if groups: true_duplicates[key] = groups`.
StoreGroups(tdups, key, grps) ==
  IF grps # <<>> THEN tdups @@ (key :> grps) ELSE tdups

\* The loop head of find_true_duplicates_*: the next candidate key, or, after the
\* last one, the differences.
NextKey ==
  /\ pc = "next_key"
  /\ IF todo = <<>>
     THEN /\ differences' = ComputeDifferences(candidates, true_dups)
          /\ pc' = "classified"
          /\ UNCHANGED <<todo, cur_key, remaining, groups, hash_pos, hash_groups>>
     ELSE /\ cur_key' = Head(todo)
          /\ todo' = Tail(todo)
          /\ remaining' = Range(candidates[Head(todo)])
          /\ groups' = <<>>
          /\ hash_pos' = 1
          /\ hash_groups' = <<>>
          /\ pc' = method
          /\ UNCHANGED differences
  /\ UNCHANGED <<files, unreadable, file_index, min_file_size, method, hash_cache,
                 candidates, true_dups, opens, read_errors, compared, hashed, svars, ovars>>

\* Mutant: the pivot is read from `remaining` without being popped, and is
\* compared with itself.
ByteGroupOf_PivotNotPopped(current_file, others, ioerrs) ==
  <<current_file>> \o
    SeqOfSet({o \in others \cup {current_file} :
                compare_files_byte_by_byte(current_file, o, o \in ioerrs)})

\* One pass of the while loop of _group_identical_files_byte: pop a pivot, compare
\* it with every remaining path, remove the pivot and the paths equal to it.
ByteGroupOf(current_file, others, ioerrs) ==
  <<current_file>> \o
    SeqOfSet({o \in others : compare_files_byte_by_byte(current_file, o, o \in ioerrs)})

ByteKeep(current_group) == Len(current_group) > 1

\* Mutant: `remaining -= to_remove` left out.
ByteRemaining_NoRemove(others, current_group) == others

\* `remaining -= to_remove`, the pivot being popped already.
ByteRemaining(others, current_group) == others \ Range(current_group)

ByteRound ==
  /\ pc = "byte"
  /\ remaining # {}
  /\ \E current_file \in remaining :
       \E ioerrs \in SUBSET (remaining \ {current_file}) :
         LET others == remaining \ {current_file}
             current_group == ByteGroupOf(current_file, others, ioerrs)
             rem2 == ByteRemaining(others, current_group)
             groups2 == IF ByteKeep(current_group)
                        THEN Append(groups, current_group) ELSE groups
         IN /\ remaining' = rem2
            /\ groups' = groups2
            /\ opens' = [p \in Paths |->
                            IF p = current_file THEN opens[p] + Cardinality(others)
                            ELSE IF p \in others THEN opens[p] + 1
                            ELSE opens[p]]
            /\ read_errors' = (\/ read_errors
                                \/ \E o \in others : \/ ~CanOpen(current_file)
                                                      \/ ~CanOpen(o)
                                                      \/ o \in ioerrs)
            /\ IF rem2 = {}
               THEN /\ true_dups' = StoreGroups(true_dups, cur_key, groups2)
                    /\ pc' = "next_key"
               ELSE UNCHANGED <<true_dups, pc>>
  /\ UNCHANGED <<files, unreadable, file_index, min_file_size, method, hash_cache,
                 candidates, todo, cur_key, hash_pos, hash_groups, differences, compared, hashed,
                 svars, ovars>>

\* hash_groups with filepath appended under file_hash (a new entry goes last).
HashAdd(hg, file_hash, filepath) ==
  IF file_hash = NoDigest THEN hg
  ELSE IF \E i \in 1..Len(hg) : hg[i][1] = file_hash
  THEN [i \in 1..Len(hg) |->
          IF hg[i][1] = file_hash THEN <<hg[i][1], Append(hg[i][2], filepath)>> ELSE hg[i]]
  ELSE Append(hg, <<file_hash, <<filepath>>>>)

\* `[group for group in hash_groups.values() if len(group) > 1]`
RECURSIVE HashResult(_)
HashResult(hg) ==
  IF hg = <<>> THEN <<>>
  ELSE (IF Len(Head(hg)[2]) > 1 THEN <<Head(hg)[2]>> ELSE <<>>) \o HashResult(Tail(hg))

\* One pass of the for loop of _group_identical_files_hash (compute_file_hash
\* included), and after the last path the return.
HashStep ==
  /\ pc = "hash"
  /\ \E ioerr \in BOOLEAN :
       LET filepath == candidates[cur_key][hash_pos]
           cached == hash_cache[filepath] # NoDigest
           file_hash == compute_file_hash(filepath, ioerr)
           hg2 == HashAdd(hash_groups, file_hash, filepath)
       IN /\ hash_cache' = IF file_hash # NoDigest
                           THEN [hash_cache EXCEPT ![filepath] = file_hash]
                           ELSE hash_cache
          /\ opens' = IF cached THEN opens
                      ELSE [opens EXCEPT ![filepath] = @ + 1]
          /\ read_errors' = (read_errors \/ file_hash = NoDigest)
          /\ hash_groups' = hg2
          /\ IF hash_pos = Len(candidates[cur_key])
             THEN /\ true_dups' = StoreGroups(true_dups, cur_key, HashResult(hg2))
                  /\ pc' = "next_key"
                  /\ UNCHANGED hash_pos
             ELSE /\ hash_pos' = hash_pos + 1
                  /\ UNCHANGED <<true_dups, pc>>
  /\ UNCHANGED <<files, unreadable, file_index, min_file_size, method,
                 candidates, todo, cur_key, remaining, groups, differences, compared, hashed,
                 svars, ovars>>

\* ------------------------------------------------------- the index, as scanned
\* scan_directory appends every file once, under the key of its name and size:
\* the lists of the index are duplicate-free and disjoint.  Path numbers are
\* arbitrary, so key 1 holds the first paths, key 2 the next ones, and so on.
KeyAssignments ==
  {ka \in [Paths -> Keys] :
     /\ ka[1] = 1
     /\ \A p \in Paths \ {1} : ka[p] \in {ka[p - 1], ka[p - 1] + 1}}

\* Content numbers, up to renaming: a new number is the next unused one.
ContentAssignments ==
  {c \in [Paths -> 1..MaxContent] :
     /\ c[1] = 1
     /\ \A p \in Paths \ {1} : \E q \in 1..(p - 1) : c[p] <= c[q] + 1}

RECURSIVE Reverse(_)
Reverse(s) == IF s = <<>> THEN <<>> ELSE Append(Reverse(Tail(s)), Head(s))

\* The traversal order of a key's list: ascending or descending paths.
IndexOf(ka, rev) ==
  [k \in {ka[p] : p \in Paths} |->
     IF rev THEN Reverse(SeqOfSet({p \in Paths : ka[p] = k}))
     ELSE SeqOfSet({p \in Paths : ka[p] = k})]

InitClassify ==
  /\ \E ka \in KeyAssignments, c \in ContentAssignments, rev \in BOOLEAN :
       /\ file_index = IndexOf(ka, rev)
       /\ files = [p \in Paths |-> Bytes(c[p], KeySize(ka[p]))]
  /\ unreadable \in {u \in SUBSET Paths : Cardinality(u) <= 1}
  /\ min_file_size \in 0..MaxMinSize
  /\ method \in {"byte", "hash"}
  /\ hash_cache = [p \in Paths |-> NoDigest]
  /\ opens = [p \in Paths |-> 0]
  /\ read_errors = FALSE
  /\ compared = NoCompare
  /\ hashed = NoRequest
  /\ pc = "start"
  /\ candidates = <<>>
  /\ todo = <<>>
  /\ cur_key = 0
  /\ remaining = {}
  /\ groups = <<>>
  /\ hash_pos = 1
  /\ hash_groups = <<>>
  /\ true_dups = <<>>
  /\ differences = <<>>
  /\ mtime = [p \in Paths |-> 0]
  /\ dup_doc = NoDupDoc
  /\ diff_doc = NoDiffDoc
  /\ OperatorIdle

NextClassify == FindCandidates \/ NextKey \/ ByteRound \/ HashStep

SpecClassify == InitClassify /\ [][NextClassify]_vars


\* ------------------------------------------------------ save_results_to_json
\* get_file_date: the ISO timestamp of the file's mtime, "" (0) when stat fails.
get_file_date(filepath, mt) == mt[filepath]

any(dates) == \E i \in 1..Len(dates) : dates[i] # 0

max(dates) == CHOOSE d \in Range(dates) : \A e \in Range(dates) : e <= d

\* Mutant: the last position holding x.
index_Last(dates, x) ==
  (CHOOSE i \in 1..Len(dates) :
     dates[i] = x /\ \A j \in 1..Len(dates) : dates[j] = x => j <= i) - 1

\* list.index, 0-based: the first position holding x.
index(dates, x) == Min({i \in 1..Len(dates) : dates[i] = x}) - 1

\* Mutant: the position counted from 1.
NewestIndex_OneBased(dates) ==
  IF dates # <<>> /\ any(dates) THEN index(dates, max(dates)) + 1 ELSE 0

\* `dates.index(max(dates)) if dates and any(dates) else 0`
NewestIndex(dates) ==
  IF dates # <<>> /\ any(dates) THEN index(dates, max(dates)) ELSE 0

KeyExt(k) == IF k = 1 THEN "" ELSE "jpg"

\* Mutant: every copy counted as wasted.
WastedSpace_All(size, sorted_group) == size * Len(sorted_group)

\* `size * (len(sorted_group) - 1)`
WastedSpace(size, sorted_group) == size * (Len(sorted_group) - 1)

DupRecord(key, group_idx, group, mt) ==
  LET sorted_group == sorted(group)
      dates == [i \in 1..Len(sorted_group) |-> get_file_date(sorted_group[i], mt)]
  IN [filename |-> key, extension |-> KeyExt(key), size_bytes |-> KeySize(key),
      group_id |-> group_idx, file_count |-> Len(sorted_group),
      paths |-> sorted_group, dates |-> dates,
      newest_index |-> NewestIndex(dates),
      wasted_space_bytes |-> WastedSpace(KeySize(key), sorted_group)]

DiffRecord(key, group_idx, group, mt) ==
  LET sorted_group == sorted(group)
      dates == [i \in 1..Len(sorted_group) |-> get_file_date(sorted_group[i], mt)]
  IN [filename |-> key, extension |-> KeyExt(key), size_bytes |-> KeySize(key),
      group_id |-> group_idx, file_count |-> Len(sorted_group),
      paths |-> sorted_group, dates |-> dates,
      newest_index |-> NewestIndex(dates)]

\* The records of `for key, groups in sorted(d.items()): for group_idx, group in
\* enumerate(groups, 1)`, keys being the sorted keys of d.
RECURSIVE DuplicatesData(_, _, _)
DuplicatesData(keys, d, mt) ==
  IF keys = <<>> THEN <<>>
  ELSE [g \in 1..Len(d[Head(keys)]) |-> DupRecord(Head(keys), g, d[Head(keys)][g], mt)]
       \o DuplicatesData(Tail(keys), d, mt)

RECURSIVE DifferencesData(_, _, _)
DifferencesData(keys, d, mt) ==
  IF keys = <<>> THEN <<>>
  ELSE [g \in 1..Len(d[Head(keys)]) |-> DiffRecord(Head(keys), g, d[Head(keys)][g], mt)]
       \o DifferencesData(Tail(keys), d, mt)

TotalWasted(duplicates_data) ==
  SumSeq([i \in 1..Len(duplicates_data) |-> duplicates_data[i].wasted_space_bytes])

DuplicatesDocument(tdups, mt) ==
  LET duplicates_data == DuplicatesData(SeqOfSet(DOMAIN tdups), tdups, mt)
  IN [total_groups |-> Len(duplicates_data),
      total_wasted_space_bytes |-> TotalWasted(duplicates_data),
      duplicates |-> duplicates_data]

DifferencesDocument(diffs, mt) ==
  LET differences_data == DifferencesData(SeqOfSet(DOMAIN diffs), diffs, mt)
  IN [total_groups |-> Len(differences_data), differences |-> differences_data]

\* main, lines 502-507: save_results_to_json(true_dups, differences, ...).
SaveResults ==
  /\ pc = "classified"
  /\ dup_doc' = DuplicatesDocument(true_dups, mtime)
  /\ diff_doc' = DifferencesDocument(differences, mtime)
  /\ pc' = "saved"
  /\ UNCHANGED <<files, unreadable, file_index, min_file_size, method, hash_cache,
                 candidates, todo, cur_key, remaining, groups, hash_pos, hash_groups,
                 true_dups, differences, opens, read_errors, compared, hashed, mtime, ovars>>

\* The outcome of the hash strategy when no read fails, as a function of the index
\* and the files: what SaveResults starts from.
RECURSIVE HashFold(_, _, _)
HashFold(paths, i, hg) ==
  IF i > Len(paths) THEN hg
  ELSE HashFold(paths, i + 1, HashAdd(hg, compute_file_hash(paths[i], FALSE), paths[i]))

RECURSIVE HashClassify(_, _, _)
HashClassify(keys, cands, tdups) ==
  IF keys = <<>> THEN tdups
  ELSE HashClassify(Tail(keys), cands,
         StoreGroups(tdups, Head(keys), HashResult(HashFold(cands[Head(keys)], 1, <<>>))))

InitSave ==
  /\ \E ka \in KeyAssignments, c \in ContentAssignments, rev \in BOOLEAN :
       /\ file_index = IndexOf(ka, rev)
       /\ files = [p \in Paths |-> Bytes(c[p], KeySize(ka[p]))]
  /\ unreadable = {}
  /\ min_file_size = 0
  /\ method = "hash"
  /\ hash_cache = [p \in Paths |-> NoDigest]
  /\ opens = [p \in Paths |-> 0]
  /\ read_errors = FALSE
  /\ compared = NoCompare
  /\ hashed = NoRequest
  /\ pc = "classified"
  /\ candidates = find_candidates_by_name_and_size
  /\ todo = <<>>
  /\ cur_key = 0
  /\ remaining = {}
  /\ groups = <<>>
  /\ hash_pos = 1
  /\ hash_groups = <<>>
  /\ true_dups = HashClassify(SeqOfSet(DOMAIN candidates), candidates, <<>>)
  /\ differences = ComputeDifferences(candidates, true_dups)
  /\ mtime \in [Paths -> 0..MaxDate]
  /\ dup_doc = NoDupDoc
  /\ diff_doc = NoDiffDoc
  /\ OperatorIdle

NextSave == SaveResults

SpecSave == InitSave /\ [][NextSave]_vars


\* ============================================= delete_duplicates_step3.py
\* A log message: the text of the f-string and the values it formats. _log and
\* _log_and_print prefix a clock timestamp, which is left out.
Msg(text, a, b, c) == <<text, a, b, c>>

Rule == Msg("======", 0, 0, 0)
NlRule == Msg("\\n======", 0, 0, 0)

\* _log / _log_and_print: `self.log_lines.append(log_message)`.
Log(lines, msgs) == lines \o msgs

\* What a run has logged and printed so far.
NoJournal == [log_lines |-> <<>>, console |-> <<>>]

\* Mutant: a quiet run keeps no log of the message either.
_log_WhenVerbose(journal, message, verb) ==
  IF verb
  THEN [log_lines |-> Append(journal.log_lines, message),
        console |-> Append(journal.console, message)]
  ELSE journal

\* _log: the message is appended to log_lines, and printed when verbose is set.
_log(journal, message, verb) ==
  [log_lines |-> Append(journal.log_lines, message),
   console |-> IF verb THEN Append(journal.console, message) ELSE journal.console]

\* _log_and_print: the message is appended to log_lines and printed.
_log_and_print(journal, message) ==
  [log_lines |-> Append(journal.log_lines, message),
   console |-> Append(journal.console, message)]

\* The messages of `msgs` handed to _log, one after the other.
RECURSIVE LogAll(_, _, _)
LogAll(journal, msgs, verb) ==
  IF msgs = <<>> THEN journal
  ELSE LogAll(_log(journal, Head(msgs), verb), Tail(msgs), verb)

\* The messages of `msgs` handed to _log_and_print, one after the other.
RECURSIVE LogAndPrintAll(_, _)
LogAndPrintAll(journal, msgs) ==
  IF msgs = <<>> THEN journal
  ELSE LogAndPrintAll(_log_and_print(journal, Head(msgs)), Tail(msgs))

\* save_log: `f.write("\n".join(self.log_lines))`.
save_log(lines) == lines

\* `f"{filename}{ext_display}"`
FullFilename(group) == <<group.filename, group.extension>>

\* Mutant: the first path is taken for the keeper, whatever newest_index says.
OtherPositions_KeepFirst(group) ==
  SelectSeq([i \in 1..Len(group.paths) |-> i], LAMBDA i : i - 1 # 0)

\* The positions i of `for i, path in enumerate(paths): if i != newest_index`,
\* as positions of the sequence (i + 1).
OtherPositions(group) ==
  SelectSeq([i \in 1..Len(group.paths) |-> i], LAMBDA i : i - 1 # group.newest_index)

\* `dates[i] if i < len(dates) else ""`
DateAt(group, i) == IF i <= Len(group.dates) THEN group.dates[i] ELSE 0

\* DuplicateDeleter.__init__
DeleterInitLog(dry) ==
  <<Msg("DuplicateDeleter initialized", 0, 0, 0),
    Msg("Dry-run mode: {}", dry, 0, 0),
    Msg("JSON file: {}", 0, 0, 0)>>

\* ------------------------------------------------ reading the duplicates file
\* What open() or json.load() raises when the file named on the command line
\* holds no document.
NotFound == [raises |-> "FileNotFoundError"]
NotJson == [raises |-> "JSONDecodeError"]
NotPermitted == [raises |-> "PermissionError"]

\* _load_json: the two exceptions it catches end in sys.exit(1); any other one
\* leaves the constructor and ends the process with a traceback.
LoadExits(doc) == "raises" \in DOMAIN doc /\ doc \in {NotFound, NotJson}
LoadRaises(doc) == "raises" \in DOMAIN doc /\ doc = NotPermitted

\* dict.get(field, default)
get(group, field, default) == IF field \in DOMAIN group THEN group[field] ELSE default

\* The fields the loops read off a record, each with the default of its
\* `group.get(...)`: "" (0 for a name, names being numbers here), 0 and [].
GroupFields(group) ==
  [filename |-> get(group, "filename", 0),
   extension |-> get(group, "extension", ""),
   size_bytes |-> get(group, "size_bytes", 0),
   newest_index |-> get(group, "newest_index", 0),
   paths |-> get(group, "paths", <<>>),
   dates |-> get(group, "dates", <<>>),
   file_count |-> get(group, "file_count", 0),
   wasted_space_bytes |-> get(group, "wasted_space_bytes", 0)]

\* self.duplicates_data.get("duplicates", []), as the loops read its records.
duplicates_data(doc) ==
  [duplicates |-> [i \in 1..Len(get(doc, "duplicates", <<>>)) |->
                     GroupFields(doc.duplicates[i])]]

\* `paths[newest_index]` raises IndexError.
IndexError(group) == ~(group.newest_index < Len(group.paths))

\* The position of the first record on which a loop raises, or 0.
FirstRaising(duplicates) ==
  IF \E i \in 1..Len(duplicates) : IndexError(duplicates[i])
  THEN Min({i \in 1..Len(duplicates) : IndexError(duplicates[i])})
  ELSE 0

\* The records a loop gets through before it raises.
Passed(duplicates) ==
  IF FirstRaising(duplicates) = 0 THEN duplicates
  ELSE SubSeq(duplicates, 1, FirstRaising(duplicates) - 1)

analyze_storage_impact(data) ==
  LET duplicates == data.duplicates
      total_groups == Len(duplicates)
      total_files_with_duplicates ==
        SumSeq([i \in 1..Len(duplicates) |-> duplicates[i].file_count])
      total_duplicate_space ==
        SumSeq([i \in 1..Len(duplicates) |-> duplicates[i].wasted_space_bytes])
  IN <<NlRule, Msg("STORAGE IMPACT ANALYSIS", 0, 0, 0), Rule,
       Msg("Total duplicate groups: {}", total_groups, 0, 0),
       Msg("Total files involved in duplicates: {}", total_files_with_duplicates, 0, 0),
       Msg("Total wasted space: {} bytes", total_duplicate_space, 0, 0),
       Msg("Space to be freed by keeping newest: {} bytes", total_duplicate_space, 0, 0),
       Rule>>

\* preview_deletions, lines 126-129: one line per file, and its date when it has one.
RECURSIVE DeletePreviewFiles(_, _)
DeletePreviewFiles(group, poss) ==
  IF poss = <<>> THEN <<>>
  ELSE LET i == Head(poss)
       IN <<Msg("    - {}", group.paths[i], 0, 0)>>
          \o (IF DateAt(group, i) # 0
              THEN <<Msg("      Modified: {}", DateAt(group, i), 0, 0)>> ELSE <<>>)
          \o DeletePreviewFiles(group, Tail(poss))

\* preview_deletions, lines 101-129: the lines of one group.
DeletePreviewGroup(idx, group) ==
  LET files_to_delete == OtherPositions(group)
  IN <<Msg("\\nGroup {}: {} ({} bytes)", idx, FullFilename(group), group.size_bytes),
       Msg("  Keeping (newest): {}", group.paths[group.newest_index + 1], 0, 0)>>
     \o (IF group.newest_index < Len(group.dates)
         THEN <<Msg("    Modified: {}", group.dates[group.newest_index + 1], 0, 0)>>
         ELSE <<>>)
     \o (IF files_to_delete # <<>>
         THEN <<Msg("  Deleting ({} copies):", Len(files_to_delete), 0, 0)>>
              \o DeletePreviewFiles(group, files_to_delete)
         ELSE <<>>)

RECURSIVE DeletePreviewGroups(_, _)
DeletePreviewGroups(duplicates, idx) ==
  IF idx > Len(duplicates) THEN <<>>
  ELSE DeletePreviewGroup(idx, duplicates[idx]) \o DeletePreviewGroups(duplicates, idx + 1)

\* preview_deletions: what it logs and the totals it returns.
preview_deletions(data) ==
  LET duplicates == data.duplicates
      total_files ==
        SumSeq([i \in 1..Len(duplicates) |-> Len(OtherPositions(duplicates[i]))])
      total_space ==
        SumSeq([i \in 1..Len(duplicates) |->
                  duplicates[i].size_bytes * Len(OtherPositions(duplicates[i]))])
  IN [log |-> <<NlRule, Msg("PREVIEW: Files that would be deleted", 0, 0, 0), Rule>>
              \o DeletePreviewGroups(duplicates, 1)
              \o <<NlRule, Msg("SUMMARY: {} files would be deleted", total_files, 0, 0),
                   Msg("Space to be freed: {} bytes", total_space, 0, 0), Rule>>,
      total_files |-> total_files,
      total_space |-> total_space]

\* What the operating system does to the calls of one run: for each path, succeed,
\* raise PermissionError, or raise another OSError.
Faults ==
  {f \in [Paths -> {"ok", "perm", "os"}] :
     Cardinality({p \in Paths : f[p] # "ok"}) <= MaxFaults}

exists(fs, path) == fs[path] # Absent

\* Mutant: a missing file is recorded as a failed deletion.
DeleteOne_SkipIsFailure(acc, group, path, fault) ==
  IF ~exists(acc.fs, path)
  THEN [acc EXCEPT !.failed = Append(@, <<path, "Not found">>),
                   !.log = Log(@, <<Msg("  SKIP (not found): {}", path, 0, 0)>>)]
  ELSE IF fault[path] = "perm"
  THEN [acc EXCEPT !.failed = Append(@, <<path, "Permission denied">>),
                   !.log = Log(@, <<Msg("  ERROR (permission): {}", path, 0, 0)>>)]
  ELSE IF fault[path] = "os"
  THEN [acc EXCEPT !.failed = Append(@, <<path, "OSError">>),
                   !.log = Log(@, <<Msg("  ERROR ({}): {}", "OSError", path, 0)>>)]
  ELSE [acc EXCEPT !.fs = [@ EXCEPT ![path] = Absent],
                   !.ops = Append(@, <<"remove", path>>),
                   !.count = @ + 1,
                   !.space = @ + group.size_bytes,
                   !.files = Append(@, path),
                   !.log = Log(@, <<Msg("  DELETED: {}", path, 0, 0)>>)]

\* Mutant: the file is removed without looking for it first; os.remove of a
\* missing file raises FileNotFoundError, an OSError.
DeleteOne_NoExistsCheck(acc, group, path, fault) ==
  IF fault[path] = "perm"
  THEN [acc EXCEPT !.failed = Append(@, <<path, "Permission denied">>),
                   !.log = Log(@, <<Msg("  ERROR (permission): {}", path, 0, 0)>>)]
  ELSE IF fault[path] = "os" \/ ~exists(acc.fs, path)
  THEN [acc EXCEPT !.failed = Append(@, <<path, "OSError">>),
                   !.log = Log(@, <<Msg("  ERROR ({}): {}", "OSError", path, 0)>>)]
  ELSE [acc EXCEPT !.fs = [@ EXCEPT ![path] = Absent],
                   !.ops = Append(@, <<"remove", path>>),
                   !.count = @ + 1,
                   !.space = @ + group.size_bytes,
                   !.files = Append(@, path),
                   !.log = Log(@, <<Msg("  DELETED: {}", path, 0, 0)>>)]

\* Mutant: deleted_count and space_freed are raised before os.remove is called.
DeleteOne_CountsAttempts(acc, group, path, fault) ==
  IF ~exists(acc.fs, path)
  THEN [acc EXCEPT !.log = Log(@, <<Msg("  SKIP (not found): {}", path, 0, 0)>>)]
  ELSE IF fault[path] = "perm"
  THEN [acc EXCEPT !.count = @ + 1,
                   !.space = @ + group.size_bytes,
                   !.failed = Append(@, <<path, "Permission denied">>),
                   !.log = Log(@, <<Msg("  ERROR (permission): {}", path, 0, 0)>>)]
  ELSE IF fault[path] = "os"
  THEN [acc EXCEPT !.count = @ + 1,
                   !.space = @ + group.size_bytes,
                   !.failed = Append(@, <<path, "OSError">>),
                   !.log = Log(@, <<Msg("  ERROR ({}): {}", "OSError", path, 0)>>)]
  ELSE [acc EXCEPT !.fs = [@ EXCEPT ![path] = Absent],
                   !.ops = Append(@, <<"remove", path>>),
                   !.count = @ + 1,
                   !.space = @ + group.size_bytes,
                   !.files = Append(@, path),
                   !.log = Log(@, <<Msg("  DELETED: {}", path, 0, 0)>>)]

\* delete_duplicates, lines 191-209: one path that is not the keeper.
DeleteOne(acc, group, path, fault) ==
  IF ~exists(acc.fs, path)
  THEN [acc EXCEPT !.log = Log(@, <<Msg("  SKIP (not found): {}", path, 0, 0)>>)]
  ELSE IF fault[path] = "perm"
  THEN [acc EXCEPT !.failed = Append(@, <<path, "Permission denied">>),
                   !.log = Log(@, <<Msg("  ERROR (permission): {}", path, 0, 0)>>)]
  ELSE IF fault[path] = "os"
  THEN [acc EXCEPT !.failed = Append(@, <<path, "OSError">>),
                   !.log = Log(@, <<Msg("  ERROR ({}): {}", "OSError", path, 0)>>)]
  ELSE [acc EXCEPT !.fs = [@ EXCEPT ![path] = Absent],
                   !.ops = Append(@, <<"remove", path>>),
                   !.count = @ + 1,
                   !.space = @ + group.size_bytes,
                   !.files = Append(@, path),
                   !.log = Log(@, <<Msg("  DELETED: {}", path, 0, 0)>>)]

\* Mutant: the keeper's position is not excepted.
DeletePositions_All(group) == [i \in 1..Len(group.paths) |-> i]

\* delete_duplicates, line 189-190: the positions the loop acts on.
DeletePositions(group) == OtherPositions(group)

RECURSIVE DeleteFiles(_, _, _, _)
\* Mutant: the first error ends the loop over the record's paths.
DeleteFiles_AbortOnError(acc, group, poss, fault) ==
  IF poss = <<>> THEN acc
  ELSE IF Len(DeleteOne(acc, group, group.paths[Head(poss)], fault).failed) > Len(acc.failed)
  THEN DeleteOne(acc, group, group.paths[Head(poss)], fault)
  ELSE DeleteFiles(DeleteOne(acc, group, group.paths[Head(poss)], fault),
                   group, Tail(poss), fault)

DeleteFiles(acc, group, poss, fault) ==
  IF poss = <<>> THEN acc
  ELSE DeleteFiles(DeleteOne(acc, group, group.paths[Head(poss)], fault),
                   group, Tail(poss), fault)

\* delete_duplicates, lines 175-209: the loop over the groups.
RECURSIVE DeleteGroups(_, _, _, _)
DeleteGroups(acc, duplicates, idx, fault) ==
  IF idx > Len(duplicates) THEN acc
  ELSE LET group == duplicates[idx]
           begun == [acc EXCEPT !.log = Log(@,
                      <<Msg("\\nProcessing group {}: {}", idx, FullFilename(group), 0),
                        Msg("  Keeping: {}", group.paths[group.newest_index + 1], 0, 0)>>)]
       IN DeleteGroups(DeleteFiles(begun, group, DeletePositions(group), fault),
                       duplicates, idx + 1, fault)

RECURSIVE FailureLines(_)
FailureLines(failures) ==
  IF failures = <<>> THEN <<>>
  ELSE <<Msg("    - {}: {}", Head(failures)[1], Head(failures)[2], 0)>>
       \o FailureLines(Tail(failures))

\* Mutant: the summary is one line that gives the number of deleted files.
DeleteSummary_OneLine(acc) ==
  [acc EXCEPT !.log = Log(@,
     <<NlRule, Msg("SUMMARY: Files deleted: {}", acc.count, 0, 0),
       Msg("  Space freed: {} bytes", acc.space, 0, 0), Rule>>)]

\* delete_duplicates, lines 211-223: the summary.
DeleteSummary(acc) ==
  [acc EXCEPT !.log = Log(@,
     <<NlRule, Msg("SUMMARY:", 0, 0, 0),
       Msg("  Files deleted: {}", acc.count, 0, 0),
       Msg("  Space freed: {} bytes", acc.space, 0, 0)>>
     \o (IF acc.failed # <<>>
         THEN <<Msg("  Failed deletions: {}", Len(acc.failed), 0, 0)>>
              \o FailureLines(acc.failed)
         ELSE <<>>)
     \o <<Rule>>)]

\* delete_duplicates, lines 164-225, after the confirmation: what the run does to
\* the filesystem `fs`, what it logs and what it returns.
ExecuteDeletion(data, fs, fault) ==
  DeleteSummary(
    DeleteGroups([fs |-> fs, log |-> <<NlRule,
                    Msg("EXECUTING: Deleting duplicate files", 0, 0, 0), Rule>>,
                  count |-> 0, space |-> 0, files |-> <<>>, failed |-> <<>>,
                  ops |-> <<>>],
                 data.duplicates, 1, fault))

\* `input(...).strip().lower()` over the characters an operator types.
Lower(ch) ==
  CASE ch = "Y" -> "y" [] ch = "E" -> "e" [] ch = "S" -> "s" [] ch = "N" -> "n"
    [] ch = "O" -> "o" [] ch = "A" -> "a" [] ch = "B" -> "b" [] OTHER -> ch

lower(s) == [i \in 1..Len(s) |-> Lower(s[i])]

RECURSIVE lstrip(_)
lstrip(s) == IF s # <<>> /\ Head(s) = " " THEN lstrip(Tail(s)) ELSE s

RECURSIVE rstrip(_)
rstrip(s) ==
  IF s # <<>> /\ s[Len(s)] = " " THEN rstrip(SubSeq(s, 1, Len(s) - 1)) ELSE s

strip(s) == rstrip(lstrip(s))

Yes == <<"y", "e", "s">>

\* `s in t` for strings.
Contains(s, t) == \E i \in 0..(Len(t) - Len(s)) : SubSeq(t, i + 1, i + Len(s)) = s

\* Mutant: any answer with a 'y' in it confirms.
Confirmed_AnyY(typed) == Contains(<<"y">>, lower(strip(typed)))

\* `response = input(...).strip().lower()`, `response != "yes"` negated.
Confirmed(typed) == lower(strip(typed)) = Yes

\* What the operator may type at the prompt.
Responses ==
  {Yes, <<" ", "Y", "e", "S", " ">>, <<"n", "o">>, <<"y">>}

\* --------------------------------------------------------- running a command
\* The deletion and recovery commands leave the classification run alone.
ClassificationUnchanged ==
  UNCHANGED <<unreadable, file_index, min_file_size, method, hash_cache, pc,
              candidates, todo, cur_key, remaining, groups, hash_pos, hash_groups,
              true_dups, differences, opens, read_errors, compared, hashed, svars>>

\* A command starts on the saved duplicates document; what an executed run left
\* behind is remembered as `prior`. A dry or cancelled run changes nothing a later
\* command reads, so the command after it is the command before it again and only
\* commands after an executed run are followed.
BeginRun(t, dry, conf, verb, all, search) ==
  /\ pc = "saved"
  /\ IF opc = "done" THEN outcome = "executed" ELSE opc = "idle"
  /\ runs < MaxRuns
  /\ tool' = t
  /\ dry_run' = dry
  /\ confirm' = conf
  /\ verbose' = verb
  /\ recover_all' = all
  /\ search_string' = search
  /\ files0' = files
  /\ drift' = drift
  /\ prior' = IF opc = "done"
              THEN [tool |-> tool, outcome |-> outcome, failed |-> Len(failed),
                    files |-> result[3],
                    selection |-> <<recover_all, search_string>>,
                    failed_paths |-> {failed[i][1] : i \in 1..Len(failed)}]
              ELSE prior
  /\ ClassificationUnchanged

\* The command blocks in input().
AwaitAnswer(lines) ==
  /\ opc' = "prompt"
  /\ outcome' = "none"
  /\ response' = <<>>
  /\ log_lines' = lines
  /\ log_file' = NoFile
  /\ result' = NoResult
  /\ failed' = <<>>
  /\ fs_ops' = <<>>
  /\ UNCHANGED <<files, dirs, runs>>

\* Mutant: a cancelled run returns without saving the log.
EndRun_NoSaveOnCancel(out, lines, res, fl, ops, fs, ds) ==
  /\ opc' = "done"
  /\ outcome' = out
  /\ log_lines' = lines
  /\ log_file' = IF out = "cancelled" THEN NoFile ELSE save_log(lines)
  /\ result' = res
  /\ failed' = fl
  /\ fs_ops' = ops
  /\ files' = fs
  /\ dirs' = ds
  /\ runs' = IF out = "executed" THEN runs + 1 ELSE runs

\* The method returns `res` and main calls save_log.
EndRun(out, lines, res, fl, ops, fs, ds) ==
  /\ opc' = "done"
  /\ outcome' = out
  /\ log_lines' = lines
  /\ log_file' = save_log(lines)
  /\ result' = res
  /\ failed' = fl
  /\ fs_ops' = ops
  /\ files' = fs
  /\ dirs' = ds
  /\ runs' = IF out = "executed" THEN runs + 1 ELSE runs

\* The process ends before main reaches save_log: sys.exit(1) in the constructor
\* ("exit_1"), or an exception nothing catches ("raised"). Its log lines go with it.
Die(out, ops, fs, ds) ==
  /\ opc' = "done"
  /\ outcome' = out
  /\ log_lines' = <<>>
  /\ log_file' = NoFile
  /\ result' = NoResult
  /\ failed' = <<>>
  /\ fs_ops' = ops
  /\ files' = fs
  /\ dirs' = ds
  /\ UNCHANGED runs

\* What a run has come to: its outcome ("prompt": it waits in input()), its log
\* and console, the tuple it returned, its failure list, its filesystem calls and
\* the filesystem after them.
RunRecord(out, journal, res, fl, ops, fs, ds) ==
  [outcome |-> out, log_lines |-> journal.log_lines, console |-> journal.console,
   result |-> res, failed |-> fl, ops |-> ops, fs |-> fs, dirs |-> ds]

\* A run that ended before main reached save_log.
Dead(out, ops, fs, ds) == RunRecord(out, NoJournal, NoResult, <<>>, ops, fs, ds)

NoFault == [p \in Paths |-> "ok"]

\* main after the method returned or the process died.
Finish(run) ==
  /\ console' = run.console
  /\ IF run.outcome = "prompt" THEN AwaitAnswer(run.log_lines)
     ELSE IF run.outcome \in {"exit_1", "raised"}
     THEN Die(run.outcome, run.ops, run.fs, run.dirs)
     ELSE EndRun(run.outcome, run.log_lines, run.result, run.failed, run.ops,
                 run.fs, run.dirs)

\* delete_duplicates, lines 149-152: the dry run; recover_duplicates, lines 197-200.
DryRun(journal, preview, fs, ds, verb) ==
  RunRecord("dry_run", LogAll(journal, preview.log, verb),
            <<preview.total_files, preview.total_space, <<>>>>, <<>>, <<>>, fs, ds)

\* delete_duplicates, lines 155-159: the preview, then input(); recover_duplicates,
\* lines 203-207.
Prompt(journal, preview, fs, ds, verb) ==
  RunRecord("prompt", LogAll(journal, preview.log, verb), NoResult, <<>>, <<>>, fs, ds)

\* delete_duplicates, lines 160-162; recover_duplicates, lines 208-210.
Cancelled(journal, message, fs, ds, verb) ==
  RunRecord("cancelled", LogAll(journal, <<message>>, verb), <<0, 0, <<>>>>,
            <<>>, <<>>, fs, ds)

\* The end of an execution: the method returns, or a record raised IndexError.
Executed(journal, run, raising, ds, verb) ==
  IF raising = 0
  THEN RunRecord("executed", LogAll(journal, run.log, verb),
                 <<run.count, run.space, run.files>>, run.failed, run.ops, run.fs, ds)
  ELSE Dead("raised", run.ops, run.fs, ds)

\* delete_duplicates, lines 164-225.
DeleteExecuted(journal, data, fs, ds, verb, fault) ==
  Executed(journal,
           ExecuteDeletion([duplicates |-> Passed(data.duplicates)], fs, fault),
           FirstRaising(data.duplicates), ds, verb)

\* delete_duplicates(confirm) after the constructor and analyze_storage_impact.
DeleteLoaded(journal, data, fs, ds, dry, conf, verb, fault) ==
  IF dry
  THEN DryRun(LogAll(journal,
                     <<Msg("\\nDRY-RUN MODE: No files will be deleted", 0, 0, 0)>>, verb),
              preview_deletions(data), fs, ds, verb)
  ELSE IF conf THEN Prompt(journal, preview_deletions(data), fs, ds, verb)
  ELSE DeleteExecuted(journal, data, fs, ds, verb, fault)

\* main, lines 330-348, up to the prompt: the constructor, analyze_storage_impact
\* and delete_duplicates(confirm).
DeleteOpening(doc, fs, ds, dry, conf, verb, fault) ==
  IF LoadExits(doc) THEN Dead("exit_1", <<>>, fs, ds)
  ELSE IF LoadRaises(doc) THEN Dead("raised", <<>>, fs, ds)
  ELSE IF (dry \/ conf) /\ FirstRaising(duplicates_data(doc).duplicates) # 0
  THEN Dead("raised", <<>>, fs, ds)
  ELSE DeleteLoaded(LogAndPrintAll(LogAll(NoJournal, DeleterInitLog(dry), verb),
                                   analyze_storage_impact(duplicates_data(doc))),
                    duplicates_data(doc), fs, ds, dry, conf, verb, fault)

\* delete_duplicates, lines 159-225, from the operator's answer on.
DeleteClosing(journal, doc, fs, ds, verb, typed, fault) ==
  IF ~Confirmed(typed)
  THEN Cancelled(journal, Msg("\\nDeletion cancelled by user", 0, 0, 0), fs, ds, verb)
  ELSE DeleteExecuted(journal, duplicates_data(doc), fs, ds, verb, fault)

\* One run of the deleter up to the prompt or, when it does not ask, to its end;
\* main calls save_log when the method returns.
DeleteRun(dry, conf, verb) ==
  /\ BeginRun("delete", dry, conf, verb, FALSE, <<>>)
  /\ response' = <<>>
  /\ \E fault \in IF dry \/ conf THEN {NoFault} ELSE Faults :
       \E run \in {DeleteOpening(dup_doc, files, dirs, dry, conf, verb, fault)} :
         Finish(run)

\* The deletion command: `dry_run=not execute`, `confirm=True` when executing,
\* without --verbose.
DeleteCommand == \E execute \in BOOLEAN : DeleteRun(~execute, execute, FALSE)

\* The operator answers the prompt of the deleter.
DeleteAnswer ==
  /\ opc = "prompt"
  /\ tool = "delete"
  /\ \E typed \in Responses :
       /\ response' = typed
       /\ \E fault \in IF Confirmed(typed) THEN Faults ELSE {NoFault} :
            \E run \in {DeleteClosing([log_lines |-> log_lines, console |-> console],
                                      dup_doc, files, dirs, verbose, typed, fault)} :
              Finish(run)
  /\ ClassificationUnchanged
  /\ UNCHANGED <<tool, dry_run, confirm, verbose, recover_all, search_string, files0,
                 drift, prior>>

\* ========================================== recover_deleted_files_step4.py
\* The text of a path: a directory of its own, named in upper case for the odd
\* paths and in lower case for the even ones, and a file name.
Digit(p) ==
  CASE p = 1 -> "1" [] p = 2 -> "2" [] p = 3 -> "3" [] p = 4 -> "4" [] p = 5 -> "5"
    [] OTHER -> "6"

PathString(p) == <<IF p % 2 = 1 THEN "A" ELSE "b", "/", Digit(p)>>

\* The search strings of the command line.
Searches == {<<"a">>, <<"B">>, <<"z">>}

\* __init__, line 42: `search_string.lower() if search_string else None`.
SearchOf(search) == IF search # <<>> THEN lower(search) ELSE <<>>

\* Mutant: every path of a matching record is a target.
Selected_WholeRecord(all, search, path) == TRUE

\* `self.recover_all or self.search_string in path.lower()`
Selected(all, search, path) == all \/ Contains(search, lower(PathString(path)))

\* _filter_matching_groups
_filter_matching_groups(data, all, search) ==
  IF all THEN data.duplicates
  ELSE SelectSeq(data.duplicates,
                 LAMBDA group : \E i \in 1..Len(group.paths) :
                                  Contains(search, lower(PathString(group.paths[i]))))

\* The positions of `if i != newest_index and (self.recover_all or
\* self.search_string in path.lower())`.
RecoverPositions(group, all, search) ==
  SelectSeq(OtherPositions(group), LAMBDA i : Selected(all, search, group.paths[i]))

\* DuplicateRecoverer.__init__
RecovererInitLog(dry, all, search) ==
  <<Msg("DuplicateRecoverer initialized", 0, 0, 0),
    Msg("Dry-run mode: {}", dry, 0, 0),
    Msg("JSON file: {}", 0, 0, 0),
    IF all THEN Msg("Mode: Recover all files", 0, 0, 0)
    ELSE Msg("Search string: {}", search, 0, 0)>>

\* The message of an empty selection.
NoneMatch(all, search) ==
  IF all THEN Msg("No duplicate groups found", 0, 0, 0)
  ELSE Msg("No duplicate groups match search string: '{}'", search, 0, 0)

analyze_recovery_impact(data, all, search) ==
  LET matching_groups == _filter_matching_groups(data, all, search)
      counts == [g \in 1..Len(matching_groups) |->
                   IF all THEN Len(matching_groups[g].paths) - 1
                   ELSE Len(RecoverPositions(matching_groups[g], all, search))]
      total_matching_files == SumSeq(counts)
      total_space_to_restore ==
        SumSeq([g \in 1..Len(matching_groups) |->
                  counts[g] * matching_groups[g].size_bytes])
  IN <<NlRule, Msg("RECOVERY IMPACT ANALYSIS", 0, 0, 0), Rule>>
     \o (IF matching_groups = <<>>
         THEN <<NoneMatch(all, search), Rule>>
         ELSE <<IF all THEN Msg("Mode: Recover all files", 0, 0, 0)
                ELSE Msg("Search string: '{}'", search, 0, 0),
                Msg("Matching duplicate groups: {}", Len(matching_groups), 0, 0),
                Msg("Total files to recover: {}", total_matching_files, 0, 0),
                Msg("Total space to restore: {} bytes", total_space_to_restore, 0, 0),
                Rule>>)

RECURSIVE RecoverPreviewFiles(_, _)
RecoverPreviewFiles(group, poss) ==
  IF poss = <<>> THEN <<>>
  ELSE LET i == Head(poss)
       IN <<Msg("    - {}", group.paths[i], 0, 0)>>
          \o (IF DateAt(group, i) # 0
              THEN <<Msg("      Original date: {}", DateAt(group, i), 0, 0)>> ELSE <<>>)
          \o RecoverPreviewFiles(group, Tail(poss))

\* preview_recoveries, lines 146-178: the lines of one group.
RecoverPreviewGroup(idx, group, all, search) ==
  LET files_to_recover == RecoverPositions(group, all, search)
  IN <<Msg("\\nGroup {}: {} ({} bytes)", idx, FullFilename(group), group.size_bytes),
       Msg("  Source (newest): {}", group.paths[group.newest_index + 1], 0, 0)>>
     \o (IF group.newest_index < Len(group.dates)
         THEN <<Msg("    Modified: {}", group.dates[group.newest_index + 1], 0, 0)>>
         ELSE <<>>)
     \o (IF files_to_recover # <<>>
         THEN <<Msg("  Recovering ({} copies):", Len(files_to_recover), 0, 0)>>
              \o RecoverPreviewFiles(group, files_to_recover)
         ELSE <<>>)

RECURSIVE RecoverPreviewGroups(_, _, _, _)
RecoverPreviewGroups(matching_groups, idx, all, search) ==
  IF idx > Len(matching_groups) THEN <<>>
  ELSE RecoverPreviewGroup(idx, matching_groups[idx], all, search)
       \o RecoverPreviewGroups(matching_groups, idx + 1, all, search)

\* preview_recoveries: what it logs and the totals it returns.
preview_recoveries(data, all, search) ==
  LET matching_groups == _filter_matching_groups(data, all, search)
      counts == [g \in 1..Len(matching_groups) |->
                   Len(RecoverPositions(matching_groups[g], all, search))]
      total_files == SumSeq(counts)
      total_space ==
        SumSeq([g \in 1..Len(matching_groups) |->
                  counts[g] * matching_groups[g].size_bytes])
      head == <<NlRule, Msg("PREVIEW: Files that would be recovered", 0, 0, 0), Rule>>
  IN IF matching_groups = <<>>
     THEN [log |-> head \o <<NoneMatch(all, search), Rule>>,
           total_files |-> 0, total_space |-> 0]
     ELSE [log |-> head
                   \o RecoverPreviewGroups(matching_groups, 1, all, search)
                   \o <<NlRule,
                        Msg("SUMMARY: {} files would be recovered", total_files, 0, 0),
                        Msg("Total space to restore: {} bytes", total_space, 0, 0), Rule>>,
           total_files |-> total_files,
           total_space |-> total_space]

\* Mutant: shutil.move in place of shutil.copy2; the source is gone after the
\* first target.
RecoverOne_Move(acc, group, source_path, path, fault, early) ==
  IF fault[path] # "ok" \/ ~exists(acc.fs, source_path)
  THEN [acc EXCEPT !.failed = Append(@, <<path, "OSError">>),
                   !.log = Log(@, <<Msg("  ERROR ({}): {}", "OSError", path, 0)>>)]
  ELSE [acc EXCEPT !.fs = [@ EXCEPT ![path] = acc.fs[source_path],
                                    ![source_path] = Absent],
                   !.dirs = @ \cup {path},
                   !.ops = Append(@, <<"move", source_path, path>>),
                   !.count = @ + 1,
                   !.space = @ + group.size_bytes,
                   !.files = Append(@, path),
                   !.log = Log(@, <<Msg("  RECOVERED: {}", path, 0, 0)>>)]

\* recover_duplicates, lines 261-280: one target path. The fault of the path
\* strikes os.makedirs when the directory has to be made and `early` is chosen,
\* shutil.copy2 otherwise.
RecoverOne(acc, group, source_path, path, fault, early) ==
  LET mkdir == path \notin acc.dirs
      made == IF mkdir
              THEN [acc EXCEPT !.dirs = @ \cup {path},
                               !.ops = Append(@, <<"makedirs", path>>),
                               !.log = Log(@, <<Msg("  MKDIR: {}", path, 0, 0)>>)]
              ELSE acc
      reached == IF mkdir /\ early THEN acc ELSE made
  IN IF fault[path] = "perm"
     THEN [reached EXCEPT !.failed = Append(@, <<path, "Permission denied">>),
                          !.log = Log(@, <<Msg("  ERROR (permission): {}", path, 0, 0)>>)]
     ELSE IF fault[path] = "os"
     THEN [reached EXCEPT !.failed = Append(@, <<path, "OSError">>),
                          !.log = Log(@, <<Msg("  ERROR ({}): {}", "OSError", path, 0)>>)]
     ELSE [made EXCEPT !.fs = [@ EXCEPT ![path] = acc.fs[source_path]],
                       !.ops = Append(@, <<"copy", source_path, path>>),
                       !.count = @ + 1,
                       !.space = @ + group.size_bytes,
                       !.files = Append(@, path),
                       !.log = Log(@, <<Msg("  RECOVERED: {}", path, 0, 0)>>)]

RECURSIVE RecoverFiles(_, _, _, _, _, _)
RecoverFiles(acc, group, source_path, poss, fault, early) ==
  IF poss = <<>> THEN acc
  ELSE RecoverFiles(RecoverOne(acc, group, source_path, group.paths[Head(poss)],
                               fault, early),
                    group, source_path, Tail(poss), fault, early)

\* Mutant: the source is not looked for before copying; copying a missing file
\* raises FileNotFoundError, an OSError, for each target.
RecoverGroup_NoSourceCheck(acc, idx, group, all, search, fault, early) ==
  LET source_path == group.paths[group.newest_index + 1]
      begun == [acc EXCEPT !.log = Log(@,
                  <<Msg("\\nGroup {}: {}", idx, FullFilename(group), 0),
                    Msg("  Source: {}", source_path, 0, 0)>>)]
  IN RecoverFiles(begun, group, source_path, RecoverPositions(group, all, search),
                  IF exists(acc.fs, source_path) THEN fault
                  ELSE [p \in Paths |-> "os"],
                  early)

\* recover_duplicates, lines 238-282: one matching group.
RecoverGroup(acc, idx, group, all, search, fault, early) ==
  LET source_path == group.paths[group.newest_index + 1]
  IN IF ~exists(acc.fs, source_path)
     THEN [acc EXCEPT !.log = Log(@,
             <<Msg("\\nGroup {}: {}", idx, FullFilename(group), 0),
               Msg("  ERROR: Source file not found: {}", source_path, 0, 0)>>)]
     ELSE LET begun == [acc EXCEPT !.log = Log(@,
                          <<Msg("\\nGroup {}: {}", idx, FullFilename(group), 0),
                            Msg("  Source: {}", source_path, 0, 0)>>)]
          IN RecoverFiles(begun, group, source_path,
                          RecoverPositions(group, all, search), fault, early)

RECURSIVE RecoverGroups(_, _, _, _, _, _, _)
RecoverGroups(acc, matching_groups, idx, all, search, fault, early) ==
  IF idx > Len(matching_groups) THEN acc
  ELSE RecoverGroups(RecoverGroup(acc, idx, matching_groups[idx], all, search, fault, early),
                     matching_groups, idx + 1, all, search, fault, early)

\* recover_duplicates, lines 286-298: the summary.
RecoverSummary(acc) ==
  [acc EXCEPT !.log = Log(@,
     <<NlRule, Msg("SUMMARY:", 0, 0, 0),
       Msg("  Files recovered: {}", acc.count, 0, 0),
       Msg("  Space restored: {} bytes", acc.space, 0, 0)>>
     \o (IF acc.failed # <<>>
         THEN <<Msg("  Failed recoveries: {}", Len(acc.failed), 0, 0)>>
              \o FailureLines(acc.failed)
         ELSE <<>>)
     \o <<Rule>>)]

\* recover_duplicates, lines 213-300, after the confirmation.
ExecuteRecovery(data, fs, ds, all, search, fault, early) ==
  RecoverSummary(
    RecoverGroups([fs |-> fs, dirs |-> ds, log |-> <<NlRule,
                     Msg("EXECUTING: Recovering duplicate files", 0, 0, 0), Rule>>,
                   count |-> 0, space |-> 0, files |-> <<>>, failed |-> <<>>,
                   ops |-> <<>>],
                  _filter_matching_groups(data, all, search), 1,
                  all, search, fault, early))

\* Which call a fault strikes matters only when a directory has to be made.
Early == IF dirs = Paths THEN {FALSE} ELSE BOOLEAN

\* recover_duplicates, lines 225-231: the total of the progress bar.
total_files_to_recover(matching_groups, all, search) ==
  SumSeq([g \in 1..Len(matching_groups) |->
            Len(RecoverPositions(matching_groups[g], all, search))])

\* recover_duplicates, lines 233-235: tqdm draws a progress bar unless verbose.
ProgressBar(journal, total, verb) ==
  IF verb THEN journal
  ELSE [journal EXCEPT !.console = Append(@, Msg("Recovering files: {}", total, 0, 0))]

\* The end of a recovery, with the directories it made.
Recovered(journal, run, raising, verb) == Executed(journal, run, raising, run.dirs, verb)

\* recover_duplicates, lines 213-300.
RecoverExecuted(journal, matching, fs, ds, all, search, verb, fault, early) ==
  Recovered(ProgressBar(journal, total_files_to_recover(matching, all, search), verb),
            ExecuteRecovery([duplicates |-> Passed(matching)], fs, ds, all, search,
                            fault, early),
            FirstRaising(matching), verb)

\* recover_duplicates(confirm) after the constructor and analyze_recovery_impact.
RecoverLoaded(journal, data, fs, ds, dry, conf, verb, all, search, fault, early) ==
  IF dry
  THEN DryRun(LogAll(journal,
                     <<Msg("\\nDRY-RUN MODE: No files will be recovered", 0, 0, 0)>>,
                     verb),
              preview_recoveries(data, all, search), fs, ds, verb)
  ELSE IF conf THEN Prompt(journal, preview_recoveries(data, all, search), fs, ds, verb)
  ELSE RecoverExecuted(journal, _filter_matching_groups(data, all, search), fs, ds,
                       all, search, verb, fault, early)

\* main, lines 447-465, up to the prompt: the constructor,
\* analyze_recovery_impact and recover_duplicates(confirm).
RecoverOpening(doc, fs, ds, dry, conf, verb, all, typed_search, fault, early) ==
  IF LoadExits(doc) THEN Dead("exit_1", <<>>, fs, ds)
  ELSE IF LoadRaises(doc) THEN Dead("raised", <<>>, fs, ds)
  ELSE IF /\ dry \/ conf
          /\ FirstRaising(_filter_matching_groups(duplicates_data(doc), all,
                                                  SearchOf(typed_search))) # 0
  THEN Dead("raised", <<>>, fs, ds)
  ELSE RecoverLoaded(
         LogAndPrintAll(LogAll(NoJournal, RecovererInitLog(dry, all, typed_search), verb),
                        analyze_recovery_impact(duplicates_data(doc), all,
                                                SearchOf(typed_search))),
         duplicates_data(doc), fs, ds, dry, conf, verb, all, SearchOf(typed_search),
         fault, early)

\* recover_duplicates, lines 207-300, from the operator's answer on.
RecoverClosing(journal, doc, fs, ds, verb, all, search, typed, fault, early) ==
  IF ~Confirmed(typed)
  THEN Cancelled(journal, Msg("\\nRecovery cancelled by user", 0, 0, 0), fs, ds, verb)
  ELSE RecoverExecuted(journal, _filter_matching_groups(duplicates_data(doc), all, search),
                       fs, ds, all, search, verb, fault, early)

\* One run of the recoverer up to the prompt or, when it does not ask, to its end;
\* main calls save_log when the method returns.
RecoverRun(dry, conf, verb, all, search) ==
  /\ BeginRun("recover", dry, conf, verb, all, SearchOf(search))
  /\ response' = <<>>
  /\ \E fault \in IF dry \/ conf THEN {NoFault} ELSE Faults,
        early \in IF dry \/ conf THEN {FALSE} ELSE Early :
       \E run \in {RecoverOpening(dup_doc, files, dirs, dry, conf, verb, all, search,
                                  fault, early)} :
         Finish(run)

\* The recovery command: --recover-all, or a search string; `dry_run=not execute`,
\* `confirm=True` when executing, without --verbose.
RecoverCommand ==
  \E execute \in BOOLEAN, all \in BOOLEAN, search \in Searches :
    RecoverRun(~execute, execute, FALSE, all, IF all THEN <<>> ELSE search)

\* The operator answers the prompt of the recoverer.
RecoverAnswer ==
  /\ opc = "prompt"
  /\ tool = "recover"
  /\ UNCHANGED <<tool, dry_run, confirm, verbose, recover_all, search_string, files0,
                 drift, prior>>
  /\ \E typed \in Responses :
       /\ response' = typed
       /\ \E fault \in IF Confirmed(typed) THEN Faults ELSE {NoFault},
             early \in IF Confirmed(typed) THEN Early ELSE {FALSE} :
            \E run \in {RecoverClosing([log_lines |-> log_lines, console |-> console],
                                       dup_doc, files, dirs, verbose, recover_all,
                                       search_string, typed, fault, early)} :
              Finish(run)
  /\ ClassificationUnchanged

\* Between the classification and the first command the tree changes under the
\* tool: a file is removed, removed together with its directory, or rewritten with
\* other bytes of the same length.
Outside ==
  /\ pc = "saved"
  /\ opc = "idle"
  /\ drift < MaxDrift
  /\ \E p \in Paths, change \in {"gone", "gone_dir", "modified"} :
       /\ exists(files, p)
       /\ files' = [files EXCEPT ![p] = IF change = "modified"
                                        THEN Bytes(MaxContent, Len(files[p]))
                                        ELSE Absent]
       /\ files' # files
       /\ dirs' = IF change = "gone_dir" THEN dirs \ {p} ELSE dirs
  /\ drift' = drift + 1
  /\ ClassificationUnchanged
  /\ UNCHANGED <<tool, dry_run, confirm, verbose, recover_all, search_string, opc,
                 response, outcome, log_lines, console, log_file, result, failed,
                 fs_ops, files0, runs, prior>>

\* The modification times of a scanned tree: none readable (newest = 0), or one
\* file newer than all the others.
Mtimes == {[p \in Paths |-> IF newest = 0 THEN 0 ELSE IF p = newest THEN MaxDate ELSE 1] :
             newest \in 0..NumPaths}

\* The state after hash_byte_dup_step2 ran over a tree in which the files of one
\* key are copies of each other, and saved its documents.
InitOperate ==
  /\ \E ka \in KeyAssignments :
       /\ file_index = IndexOf(ka, FALSE)
       /\ files = [p \in Paths |-> Bytes(1, KeySize(ka[p]))]
  /\ unreadable = {}
  /\ min_file_size = 0
  /\ method = "hash"
  /\ hash_cache = [p \in Paths |-> NoDigest]
  /\ opens = [p \in Paths |-> 0]
  /\ read_errors = FALSE
  /\ compared = NoCompare
  /\ hashed = NoRequest
  /\ pc = "saved"
  /\ candidates = find_candidates_by_name_and_size
  /\ todo = <<>>
  /\ cur_key = 0
  /\ remaining = {}
  /\ groups = <<>>
  /\ hash_pos = 1
  /\ hash_groups = <<>>
  /\ true_dups = HashClassify(SeqOfSet(DOMAIN candidates), candidates, <<>>)
  /\ differences = ComputeDifferences(candidates, true_dups)
  /\ mtime \in Mtimes
  /\ dup_doc = DuplicatesDocument(true_dups, mtime)
  /\ diff_doc = DifferencesDocument(differences, mtime)
  /\ OperatorIdle

NextOperate ==
  DeleteCommand \/ DeleteAnswer \/ RecoverCommand \/ RecoverAnswer \/ Outside

SpecOperate == InitOperate /\ [][NextOperate]_vars


\* ===================================================== classification claims
AllGroups == {<<k, i>> : k \in DOMAIN true_dups, i \in 1..NumPaths}
GroupIds == {ki \in AllGroups : ki[2] <= Len(true_dups[ki[1]])}
GroupAt(ki) == true_dups[ki[1]][ki[2]]

\* C1: for both strategies no path is in two different duplicate groups of one
\* key, and every duplicate group has at least two members.
C1_GroupsDisjointAndPlural ==
  /\ \A ki \in GroupIds :
       /\ Cardinality(Range(GroupAt(ki))) >= 2
       /\ \A kj \in GroupIds :
            (ki[1] = kj[1] /\ ki[2] # kj[2])
              => Range(GroupAt(ki)) \cap Range(GroupAt(kj)) = {}
  /\ \A i \in 1..Len(groups) :
       /\ Cardinality(Range(groups[i])) >= 2
       /\ \A j \in 1..Len(groups) :
            i # j => Range(groups[i]) \cap Range(groups[j]) = {}

\* A finished classification with two duplicate groups under one key.
C1_Witness ==
  /\ pc = "classified"
  /\ \E k \in DOMAIN true_dups : Len(true_dups[k]) >= 2

\* C2: the members of a duplicate group hold pairwise the same bytes, and no
\* member is a file that cannot be read.
C2_GroupsContentIdentical ==
  \A ki \in GroupIds :
    \A p \in Range(GroupAt(ki)) :
      /\ p \notin unreadable
      /\ \A q \in Range(GroupAt(ki)) : files[p] = files[q]

\* A duplicate group found under a key that also holds an unreadable file and a
\* file of other content.
C2_Witness ==
  /\ pc = "classified"
  /\ \E k \in DOMAIN true_dups :
       /\ \E p \in unreadable : p \in Range(candidates[k])
       /\ \E p, q \in Range(candidates[k]) : files[p] # files[q]

\* ============================================================ record claims
SavedRecords ==
  {dup_doc.duplicates[i] : i \in 1..Len(dup_doc.duplicates)}
    \cup {diff_doc.differences[i] : i \in 1..Len(diff_doc.differences)}

\* C7: in every saved record newest_index is a position of the record, and when
\* a timestamp is non-empty it is the position of a maximal timestamp.
C7_NewestIndexInRangeAndMaximal ==
  \A r \in SavedRecords :
    /\ 0 <= r.newest_index
    /\ r.newest_index < r.file_count
    /\ (\E i \in 1..Len(r.dates) : r.dates[i] # 0)
         => \A i \in 1..Len(r.dates) : r.dates[i] <= r.dates[r.newest_index + 1]

\* A saved duplicate record whose newest file is not the first, one of its
\* timestamps being empty.
C7_Witness ==
  /\ pc = "saved"
  /\ \E i \in 1..Len(dup_doc.duplicates) :
       /\ dup_doc.duplicates[i].newest_index > 0
       /\ \E j \in 1..Len(dup_doc.duplicates[i].dates) :
            dup_doc.duplicates[i].dates[j] = 0

\* C8: every saved record has as many paths and dates as its file_count, every
\* duplicate record wastes size_bytes * (file_count - 1), and the documents'
\* totals are the number of records and the sum of their wasted space.
C8_RecordShapeAndTotals ==
  /\ \A r \in SavedRecords :
       Len(r.paths) = r.file_count /\ Len(r.dates) = r.file_count
  /\ \A i \in 1..Len(dup_doc.duplicates) :
       dup_doc.duplicates[i].wasted_space_bytes
         = dup_doc.duplicates[i].size_bytes * (dup_doc.duplicates[i].file_count - 1)
  /\ dup_doc.total_groups = Len(dup_doc.duplicates)
  /\ diff_doc.total_groups = Len(diff_doc.differences)
  /\ dup_doc.total_wasted_space_bytes
       = SumSeq([i \in 1..Len(dup_doc.duplicates) |->
                   dup_doc.duplicates[i].size_bytes
                     * (Len(dup_doc.duplicates[i].paths) - 1)])

\* Saved documents with two duplicate records that waste different amounts.
C8_Witness ==
  /\ pc = "saved"
  /\ dup_doc.total_groups = 2
  /\ dup_doc.duplicates[1].wasted_space_bytes # dup_doc.duplicates[2].wasted_space_bytes
  /\ dup_doc.total_wasted_space_bytes
       = dup_doc.duplicates[1].wasted_space_bytes + dup_doc.duplicates[2].wasted_space_bytes


\* ========================================================= operator claims
Records == dup_doc.duplicates
RecordIds == 1..Len(Records)
Keeper(g) == Records[g].paths[Records[g].newest_index + 1]
NonKeepers(g) ==
  {Records[g].paths[i] : i \in {j \in 1..Len(Records[g].paths) : j - 1 # Records[g].newest_index}}
Ended(t, out) == tool = t /\ opc = "done" /\ outcome = out
Logged(msg) == \E i \in 1..Len(log_lines) : log_lines[i] = msg
Did(op) == \E i \in 1..Len(fs_ops) : fs_ops[i] = op

\* C3: in an executed deletion run the file at paths[newest_index] of a record is
\* never removed; only paths at other positions are removed, and every keeper that
\* existed before the run still exists after it.
C3_KeeperNeverRemoved ==
  Ended("delete", "executed") =>
    /\ \A i \in 1..Len(fs_ops) :
         /\ fs_ops[i][1] = "remove"
         /\ \E g \in RecordIds : fs_ops[i][2] \in NonKeepers(g)
    /\ \A g \in RecordIds :
         /\ ~Did(<<"remove", Keeper(g)>>)
         /\ exists(files0, Keeper(g)) => files[Keeper(g)] = files0[Keeper(g)]

\* An executed deletion removed two files of a record whose keeper is not its
\* first path.
C3_Witness ==
  /\ Ended("delete", "executed")
  /\ result[1] >= 2
  /\ \E g \in RecordIds :
       /\ Records[g].newest_index >= 1
       /\ exists(files, Keeper(g))
       /\ \E p \in NonKeepers(g) : Did(<<"remove", p>>)

\* C4: a deletion run in dry-run mode changes nothing on the filesystem, returns
\* an empty deleted-files list, and leaves a non-empty log whose file lines are
\* exactly the non-keeper paths of every record, each once.
C4_DryRunDeletesNothing ==
  Ended("delete", "dry_run") =>
    /\ fs_ops = <<>>
    /\ files = files0
    /\ result[3] = <<>>
    /\ log_lines # <<>>
    /\ \A p \in Paths :
         Cardinality({i \in 1..Len(log_lines) : log_lines[i] = Msg("    - {}", p, 0, 0)})
           = IF \E g \in RecordIds : p \in NonKeepers(g) THEN 1 ELSE 0

\* A dry-run deletion over two records listed three or more files, one of them
\* already gone from the tree.
C4_Witness ==
  /\ Ended("delete", "dry_run")
  /\ result[1] >= 2
  /\ \E g \in RecordIds : Records[g].newest_index >= 1
  /\ \E g \in RecordIds, p \in Paths :
       p \in NonKeepers(g) /\ ~exists(files, p) /\ Logged(Msg("    - {}", p, 0, 0))

\* The responses that are 'yes' once trimmed and lower-cased.
Affirmative == {<<"y", "e", "s">>, <<" ", "Y", "e", "S", " ">>}

C6_LogAlwaysWritten ==
  (opc = "done") =>
    /\ outcome \in {"dry_run", "cancelled", "executed"}
    /\ log_lines # <<>>
    /\ log_file = log_lines

\* A cancelled recovery wrote its log, the cancellation included.
C6_Witness ==
  /\ Ended("recover", "cancelled")
  /\ response = <<"n", "o">>
  /\ log_file = log_lines
  /\ log_file[Len(log_file)] = Msg("\\nRecovery cancelled by user", 0, 0, 0)

\* The records the recovery run selects, and the targets it selects in them.
SelectedRecord(g) ==
  recover_all \/ \E p \in Range(Records[g].paths) :
                    Contains(search_string, lower(PathString(p)))
Targets(g) ==
  {p \in NonKeepers(g) : recover_all \/ Contains(search_string, lower(PathString(p)))}

\* C9: in an executed recovery run a selected record whose source
\* paths[newest_index] does not exist gets an error log line and no copy (none of
\* its paths is written, no directory is made for it), and every target of every
\* other selected record is still copied from its source or recorded as failed.
C9_MissingSourceSkipsRecord ==
  Ended("recover", "executed") =>
    \A g \in RecordIds :
      SelectedRecord(g) =>
        IF ~exists(files0, Keeper(g))
        THEN /\ Logged(Msg("  ERROR: Source file not found: {}", Keeper(g), 0, 0))
             /\ \A i \in 1..Len(fs_ops) : fs_ops[i][Len(fs_ops[i])] \notin Range(Records[g].paths)
             /\ \A p \in Range(Records[g].paths) : files[p] = files0[p]
        ELSE \A p \in Targets(g) :
               \/ /\ Did(<<"copy", Keeper(g), p>>)
                  /\ files[p] = files0[Keeper(g)]
                  /\ Logged(Msg("  RECOVERED: {}", p, 0, 0))
               \/ \E i \in 1..Len(failed) : failed[i][1] = p

\* An executed recovery over two selected records: the source of one is gone,
\* the other had a target copied.
C9_Witness ==
  /\ Ended("recover", "executed")
  /\ \E g, h \in RecordIds :
       /\ SelectedRecord(g)
       /\ ~exists(files0, Keeper(g))
       /\ Targets(g) # {}
       /\ SelectedRecord(h)
       /\ \E p \in Targets(h) : Did(<<"copy", Keeper(h), p>>)

\* C10: an executed deletion that follows an executed deletion without failures
\* on the same records changes nothing on the filesystem, reports 0 files
\* deleted, logs every file the first run removed as a skip, and records no
\* failure.
C10_DeletionIdempotent ==
  (/\ Ended("delete", "executed")
   /\ prior.tool = "delete"
   /\ prior.outcome = "executed"
   /\ prior.failed = 0) =>
    /\ fs_ops = <<>>
    /\ files = files0
    /\ result = <<0, 0, <<>>>>
    /\ failed = <<>>
    /\ \A i \in 1..Len(prior.files) :
         Logged(Msg("  SKIP (not found): {}", prior.files[i], 0, 0))
    /\ Logged(Msg("  Files deleted: {}", 0, 0, 0))

\* A second executed deletion after a first one that removed two files.
C10_Witness ==
  /\ Ended("delete", "executed")
  /\ prior.tool = "delete"
  /\ prior.outcome = "executed"
  /\ prior.failed = 0
  /\ Len(prior.files) >= 2
  /\ runs >= 2

\* C11: when recovery runs with a search string (not --recover-all), a path is
\* copied onto only if it is not its record's keeper and its lower-cased text
\* contains the lower-cased search string; a record with no such path gets no
\* copy and no directory, even when its keeper's path matches.
C11_OnlyMatchingTargetsCopied ==
  (Ended("recover", "executed") /\ ~recover_all) =>
    /\ \A i \in 1..Len(fs_ops) :
         \E g \in RecordIds :
           /\ fs_ops[i][Len(fs_ops[i])] \in NonKeepers(g)
           /\ Contains(search_string, lower(PathString(fs_ops[i][Len(fs_ops[i])])))
           /\ fs_ops[i][1] = "copy" => fs_ops[i][2] = Keeper(g)
    /\ \A g \in RecordIds :
         (\A p \in NonKeepers(g) : ~Contains(search_string, lower(PathString(p)))) =>
           /\ \A i \in 1..Len(fs_ops) :
                fs_ops[i][Len(fs_ops[i])] \notin Range(Records[g].paths)
           /\ \A p \in Range(Records[g].paths) : files[p] = files0[p]

\* An executed recovery by search string copied onto a matching path of one
\* record and left alone a record of which only the keeper matches.
C11_Witness ==
  /\ Ended("recover", "executed")
  /\ ~recover_all
  /\ \E g, h \in RecordIds :
       /\ Contains(search_string, lower(PathString(Keeper(g))))
       /\ exists(files0, Keeper(g))
       /\ \A p \in NonKeepers(g) : ~Contains(search_string, lower(PathString(p)))
       /\ \E p \in NonKeepers(h) : Did(<<"copy", Keeper(h), p>>)

\* The log lines that tell what became of a path in the executing loop.
IsErrorLine(line, p) ==
  \/ line = Msg("  ERROR (permission): {}", p, 0, 0)
  \/ line = Msg("  ERROR ({}): {}", "OSError", p, 0)
IsOutcomeLine(line, p) ==
  \/ line = Msg("  DELETED: {}", p, 0, 0)
  \/ line = Msg("  SKIP (not found): {}", p, 0, 0)
  \/ line = Msg("  RECOVERED: {}", p, 0, 0)
  \/ IsErrorLine(line, p)
OutcomeLines(p) == {i \in 1..Len(log_lines) : IsOutcomeLine(log_lines[i], p)}
ErrorLines(p) == {i \in 1..Len(log_lines) : IsErrorLine(log_lines[i], p)}

\* The paths an executed run has to act on, and the order of its loops.
ToProcess ==
  {p \in Paths : \E g \in RecordIds :
     /\ p \in NonKeepers(g)
     /\ tool = "recover" => (p \in Targets(g) /\ exists(files0, Keeper(g)))}
RecordOf(p) == CHOOSE g \in RecordIds : p \in Range(Records[g].paths)
PositionOf(p) == CHOOSE j \in 1..Len(Records[RecordOf(p)].paths) : Records[RecordOf(p)].paths[j] = p
Before(p, q) ==
  \/ RecordOf(p) < RecordOf(q)
  \/ RecordOf(p) = RecordOf(q) /\ PositionOf(p) < PositionOf(q)

\* C12: in an executed deletion or recovery a permission or OS error on a path is
\* caught, put on the failure list and logged; every path the run has to act on,
\* those after the failing one in the same record and in later records included,
\* gets its one outcome line, in loop order; and what succeeded stays done: a
\* removed file is gone, a copied file holds the source's bytes, a made directory
\* exists.
C12_ErrorsDoNotStopTheRun ==
  (opc = "done" /\ outcome = "executed") =>
    /\ \A p \in ToProcess : Cardinality(OutcomeLines(p)) = 1
    /\ \A p, q \in ToProcess :
         Before(p, q) => \A i \in OutcomeLines(p), j \in OutcomeLines(q) : i < j
    /\ \A i \in 1..Len(failed) :
         /\ failed[i][1] \in ToProcess
         /\ ErrorLines(failed[i][1]) # {}
         /\ Logged(Msg("    - {}: {}", failed[i][1], failed[i][2], 0))
    /\ \A p \in Paths : ErrorLines(p) # {} => \E i \in 1..Len(failed) : failed[i][1] = p
    /\ \A i \in 1..Len(fs_ops) :
         /\ fs_ops[i][1] = "remove" => ~exists(files, fs_ops[i][2])
         /\ fs_ops[i][1] = "copy" => files[fs_ops[i][3]] = files0[fs_ops[i][2]]
         /\ fs_ops[i][1] = "makedirs" => fs_ops[i][2] \in dirs

\* An executed recovery in which one copy failed and a later one succeeded,
\* after an executed deletion in which one removal failed and two succeeded.
C12_Witness ==
  /\ Ended("recover", "executed")
  /\ Len(failed) = 1
  /\ \E q \in ToProcess : Before(failed[1][1], q) /\ Did(<<"copy", Keeper(RecordOf(q)), q>>)
  /\ prior.tool = "delete"
  /\ prior.failed = 1
  /\ Len(prior.files) >= 2

OnFailureList(p) == \E i \in 1..Len(failed) : failed[i][1] = p

\* C13 as claimed: in an executed run every missing deletion target and every
\* missing recovery source of a selected record is on the run's failure list.
C13_MissingFilesOnFailureList ==
  (opc = "done" /\ outcome = "executed") =>
    /\ tool = "delete" =>
         \A g \in RecordIds : \A p \in NonKeepers(g) :
           ~exists(files0, p) => OnFailureList(p)
    /\ tool = "recover" =>
         \A g \in RecordIds :
           (SelectedRecord(g) /\ ~exists(files0, Keeper(g))) =>
             \E p \in Range(Records[g].paths) : OnFailureList(p)

\* C13: in an executed run a path is on the failure list exactly when a
\* permission or OS error was logged for it; a missing deletion target is logged
\* as a skip, a missing recovery source as an error of its record, neither is put
\* on the failure list, and in every case the run goes on to the paths and
\* records that follow.
C13_MissingFilesLoggedNotFailed ==
  (opc = "done" /\ outcome = "executed") =>
    /\ \A p \in Paths : OnFailureList(p) <=> ErrorLines(p) # {}
    /\ tool = "delete" =>
         \A g \in RecordIds : \A p \in NonKeepers(g) :
           ~exists(files0, p) =>
             /\ Logged(Msg("  SKIP (not found): {}", p, 0, 0))
             /\ ~OnFailureList(p)
    /\ tool = "recover" =>
         \A g \in RecordIds :
           (SelectedRecord(g) /\ ~exists(files0, Keeper(g))) =>
             /\ Logged(Msg("  ERROR: Source file not found: {}", Keeper(g), 0, 0))
             /\ \A p \in Range(Records[g].paths) : ~OnFailureList(p)
    /\ \A p \in ToProcess : OutcomeLines(p) # {}
    /\ Logged(Msg("SUMMARY:", 0, 0, 0))

\* An executed deletion met a missing target, a target it could not remove and
\* a target it removed.
C13_Witness ==
  /\ Ended("delete", "executed")
  /\ \E p \in Paths : Logged(Msg("  SKIP (not found): {}", p, 0, 0))
  /\ Len(failed) = 1
  /\ result[1] >= 1


\* ============================================= classification claims, continued
\* The files of which a read failed for good, or of which the digest failed.
FailedFiles ==
  unreadable \cup {p \in Paths : method = "hash" /\ opens[p] > 0 /\ hash_cache[p] = NoDigest}
KeyOf(p) == CHOOSE k \in DOMAIN file_index : p \in Range(file_index[k])
InSomeGroup(p) == \E ki \in GroupIds : p \in Range(GroupAt(ki))
DifferenceEntries(p) ==
  IF KeyOf(p) \in DOMAIN differences
  THEN {i \in 1..Len(differences[KeyOf(p)]) : p \in Range(differences[KeyOf(p)][i])}
  ELSE {}

GroupPlaces(p) ==
  {<<ki, i>> : ki \in {kj \in GroupIds : p \in Range(GroupAt(kj))}, i \in 1..NumPaths}
PlacesInGroups(p) ==
  {x \in GroupPlaces(p) : x[2] <= Len(GroupAt(x[1])) /\ GroupAt(x[1])[x[2]] = p}
DifferencePlaces(p) ==
  {<<k, i>> : k \in DOMAIN differences, i \in 1..NumPaths}
PlacesInDifferences(p) ==
  {x \in DifferencePlaces(p) :
     x[2] <= Len(differences[x[1]]) /\ p \in Range(differences[x[1]][x[2]])}
AllDiffer(k) ==
  \A i, j \in 1..Len(file_index[k]) :
    i # j => files[file_index[k][i]] # files[file_index[k][j]]

\* C15: after classification every path of a candidate key is in exactly one
\* place, a position of one duplicate group of its key or a singleton difference
\* entry of its key, and a candidate key whose files all differ in content has no
\* duplicate group and one difference entry per path.
C15_EveryCandidatePathInOnePlace ==
  pc = "classified" =>
    \A k \in DOMAIN file_index :
      (Len(file_index[k]) >= 2 /\ KeySize(k) >= min_file_size) =>
        /\ \A p \in Range(file_index[k]) :
             /\ Cardinality(PlacesInGroups(p)) + Cardinality(PlacesInDifferences(p)) = 1
             /\ \A x \in PlacesInGroups(p) : x[1][1] = k
             /\ \A x \in PlacesInDifferences(p) :
                  x[1] = k /\ differences[k][x[2]] = <<p>>
        /\ AllDiffer(k) =>
             /\ k \notin DOMAIN true_dups
             /\ k \in DOMAIN differences
             /\ Len(differences[k]) = Len(file_index[k])
             /\ \A i \in 1..Len(file_index[k]) : differences[k][i] = <<file_index[k][i]>>

\* A classified index with a key whose two files were grouped and a key whose
\* two files differ and became two difference entries.
C15_Witness ==
  /\ pc = "classified"
  /\ unreadable = {}
  /\ \E k \in DOMAIN true_dups, d \in DOMAIN differences :
       /\ k # d
       /\ AllDiffer(d)
       /\ Len(differences[d]) = 2
       /\ \E p \in Range(file_index[k]) : Cardinality(PlacesInGroups(p)) = 1

BelowFloor(k) == KeySize(k) < min_file_size
InProgress(p) ==
  \/ p \in remaining
  \/ \E i \in 1..Len(groups) : p \in Range(groups[i])
  \/ \E i \in 1..Len(hash_groups) : p \in Range(hash_groups[i][2])

\* C16: a path of a key whose size is below min_file_size is never a candidate,
\* is never handed to a comparison or a digest, and is in no duplicate group and
\* no difference entry; a key of two or more paths whose size equals the floor is
\* a candidate, its files are read, and each of them is a duplicate or a difference.
C16_FloorExcludesSmallKeys ==
  \A k \in DOMAIN file_index :
    /\ BelowFloor(k) =>
         /\ k \notin DOMAIN candidates
         /\ k \notin DOMAIN true_dups
         /\ k \notin DOMAIN differences
         /\ cur_key # k
         /\ \A p \in Range(file_index[k]) :
              /\ opens[p] = 0
              /\ hash_cache[p] = NoDigest
              /\ ~InProgress(p)
              /\ PlacesInGroups(p) = {}
              /\ PlacesInDifferences(p) = {}
    /\ (KeySize(k) = min_file_size /\ Len(file_index[k]) >= 2) =>
         /\ pc # "start" => k \in DOMAIN candidates
         /\ pc = "classified" =>
              \A p \in Range(file_index[k]) :
                /\ opens[p] > 0
                /\ PlacesInGroups(p) \cup PlacesInDifferences(p) # {}

\* A classified index in which a key of two files lies below the floor and was
\* left alone while a key of two files at the floor was classified.
C16_Witness ==
  /\ pc = "classified"
  /\ \E k, l \in DOMAIN file_index :
       /\ BelowFloor(k)
       /\ Len(file_index[k]) = 2
       /\ \A p \in Range(file_index[k]) : opens[p] = 0
       /\ KeySize(l) = min_file_size
       /\ l \in DOMAIN true_dups \cup DOMAIN differences


\* ================================================= the duplicates file as input
\* The fields of a record without which it does not say what is to be kept.
RequiredFields == {"paths", "newest_index", "size_bytes"}

Without(doc, i, field) ==
  [doc EXCEPT !.duplicates[i] = [f \in DOMAIN @ \ {field} |-> @[f]]]

\* What the file named on the command line may hold instead of the document that
\* save_results_to_json wrote: nothing, no JSON, no read permission, a document
\* without its list of records, or a record without one of its fields.
Damaged(doc) ==
  {doc, NotFound, NotJson, NotPermitted, [total_groups |-> doc.total_groups]}
    \cup {Without(doc, i, f) : i \in 1..Len(doc.duplicates), f \in RequiredFields}

\* InitOperate, with a duplicates file that may be damaged.
InitInput ==
  /\ \E ka \in KeyAssignments :
       /\ file_index = IndexOf(ka, FALSE)
       /\ files = [p \in Paths |-> Bytes(1, KeySize(ka[p]))]
  /\ unreadable = {}
  /\ min_file_size = 0
  /\ method = "hash"
  /\ hash_cache = [p \in Paths |-> NoDigest]
  /\ opens = [p \in Paths |-> 0]
  /\ read_errors = FALSE
  /\ compared = NoCompare
  /\ hashed = NoRequest
  /\ pc = "saved"
  /\ candidates = find_candidates_by_name_and_size
  /\ todo = <<>>
  /\ cur_key = 0
  /\ remaining = {}
  /\ groups = <<>>
  /\ hash_pos = 1
  /\ hash_groups = <<>>
  /\ true_dups = HashClassify(SeqOfSet(DOMAIN candidates), candidates, <<>>)
  /\ differences = ComputeDifferences(candidates, true_dups)
  /\ mtime \in Mtimes
  /\ dup_doc \in Damaged(DuplicatesDocument(true_dups, mtime))
  /\ diff_doc = DifferencesDocument(differences, mtime)
  /\ OperatorIdle

NextInput == DeleteCommand \/ DeleteAnswer \/ RecoverCommand \/ RecoverAnswer

SpecInput == InitInput /\ [][NextInput]_vars

Defective ==
  \/ "raises" \in DOMAIN dup_doc
  \/ "duplicates" \notin DOMAIN dup_doc
  \/ /\ "duplicates" \in DOMAIN dup_doc
     /\ \E i \in 1..Len(dup_doc.duplicates) :
          ~(RequiredFields \subseteq DOMAIN dup_doc.duplicates[i])

\* C17: a command given a duplicates file that is missing, unreadable, not JSON,
\* or that holds a record lacking a required field, ends with a non-zero exit
\* status and has removed or copied nothing.
C17_InputErrorsEndTheRun ==
  (Defective /\ opc # "idle") =>
    /\ opc = "done"
    /\ outcome \in {"exit_1", "raised"}
    /\ fs_ops = <<>>
    /\ files = files0

\* A deletion that was confirmed and executed on a record without newest_index.
C17_Witness ==
  /\ Ended("delete", "executed")
  /\ "duplicates" \in DOMAIN dup_doc
  /\ Len(dup_doc.duplicates) = 1
  /\ "newest_index" \notin DOMAIN dup_doc.duplicates[1]
  /\ Len(fs_ops) >= 2
  /\ log_file # NoFile


\* ============================================ the two classes called directly
\* DuplicateDeleter(json_file, dry_run, verbose=...).delete_duplicates(confirm)
\* with every combination of its arguments.
DeleteCall == \E dry \in BOOLEAN, conf \in BOOLEAN, verb \in BOOLEAN : DeleteRun(dry, conf, verb)

\* DuplicateRecoverer(json_file, dry_run, ..., verbose=...).recover_duplicates(confirm)
\* with every combination of its arguments.
RecoverCall ==
  \E dry \in BOOLEAN, conf \in BOOLEAN, verb \in BOOLEAN, all \in BOOLEAN :
    \E search \in IF all THEN {<<>>} ELSE Searches :
      RecoverRun(dry, conf, verb, all, search)

NextCall == DeleteCall \/ DeleteAnswer \/ RecoverCall \/ RecoverAnswer

SpecCall == InitOperate /\ [][NextCall]_vars

\* A command can start in this state.
CanBegin ==
  /\ pc = "saved"
  /\ runs < MaxRuns
  /\ opc = "idle" \/ (opc = "done" /\ outcome = "executed")

\* Two runs left the same log, result, failure list and filesystem behind.
SameButConsole(a, b) ==
  /\ a.outcome = b.outcome
  /\ a.log_lines = b.log_lines
  /\ a.result = b.result
  /\ a.failed = b.failed
  /\ a.ops = b.ops
  /\ a.fs = b.fs
  /\ a.dirs = b.dirs

JournalOf(run) == [log_lines |-> run.log_lines, console |-> run.console]

\* The faults that can strike a run which gets to executing.
FaultsWhen(executes) == IF executes THEN Faults ELSE {NoFault}
EarlyWhen(executes) == IF executes THEN Early ELSE {FALSE}

\* The quiet and the verbose deletion run agree, to the prompt and after it.
DeleteTwins(quiet, loud) ==
  /\ SameButConsole(quiet, loud)
  /\ quiet.outcome = "prompt" =>
       \A typed \in Responses : \A fault \in FaultsWhen(Confirmed(typed)) :
         SameButConsole(
           DeleteClosing(JournalOf(quiet), dup_doc, files, dirs, FALSE, typed, fault),
           DeleteClosing(JournalOf(loud), dup_doc, files, dirs, TRUE, typed, fault))

\* The quiet and the verbose recovery run agree, to the prompt and after it.
RecoverTwins(quiet, loud, all, search) ==
  /\ SameButConsole(quiet, loud)
  /\ quiet.outcome = "prompt" =>
       \A typed \in Responses :
         \A fault \in FaultsWhen(Confirmed(typed)), early \in EarlyWhen(Confirmed(typed)) :
           SameButConsole(
             RecoverClosing(JournalOf(quiet), dup_doc, files, dirs, FALSE, all,
                            SearchOf(search), typed, fault, early),
             RecoverClosing(JournalOf(loud), dup_doc, files, dirs, TRUE, all,
                            SearchOf(search), typed, fault, early))

\* C18: from any state in which a command can start, the deletion run and the
\* recovery run with verbose set and the same run without it, given the same
\* arguments, the same answer and the same faults, leave the same log messages,
\* the same returned tuple, the same failure list, the same filesystem calls and
\* the same filesystem; a finished run wrote to its log file the lines it logged,
\* and a verbose one printed them all.
C18_VerboseChangesOnlyTheConsole ==
  /\ CanBegin =>
       \A dry \in BOOLEAN, conf \in BOOLEAN :
         \A fault \in FaultsWhen(~dry /\ ~conf), early \in EarlyWhen(~dry /\ ~conf) :
           /\ ~early =>
                DeleteTwins(DeleteOpening(dup_doc, files, dirs, dry, conf, FALSE, fault),
                            DeleteOpening(dup_doc, files, dirs, dry, conf, TRUE, fault))
           /\ \A all \in BOOLEAN : \A search \in IF all THEN {<<>>} ELSE Searches :
                RecoverTwins(
                  RecoverOpening(dup_doc, files, dirs, dry, conf, FALSE, all, search,
                                 fault, early),
                  RecoverOpening(dup_doc, files, dirs, dry, conf, TRUE, all, search,
                                 fault, early),
                  all, search)
  /\ (opc = "done" /\ outcome \in {"dry_run", "cancelled", "executed"}) =>
       /\ log_file = log_lines
       /\ verbose => console = log_lines

\* An executed verbose run that removed or copied a file and echoed every message.
C18_Witness ==
  /\ opc = "done"
  /\ outcome = "executed"
  /\ verbose
  /\ fs_ops # <<>>
  /\ console = log_lines
  /\ Len(log_file) > Len(DeleterInitLog(FALSE))


\* ======================================================== the deletion scenario
\* InitOperate over trees in which files of one name and size may differ in
\* content, such that the saved document holds one record, of two paths.
InitScenario ==
  /\ \E ka \in KeyAssignments, c \in ContentAssignments :
       /\ file_index = IndexOf(ka, FALSE)
       /\ files = [p \in Paths |-> Bytes(c[p], KeySize(ka[p]))]
  /\ unreadable = {}
  /\ min_file_size = 0
  /\ method = "hash"
  /\ hash_cache = [p \in Paths |-> NoDigest]
  /\ opens = [p \in Paths |-> 0]
  /\ read_errors = FALSE
  /\ compared = NoCompare
  /\ hashed = NoRequest
  /\ pc = "saved"
  /\ candidates = find_candidates_by_name_and_size
  /\ todo = <<>>
  /\ cur_key = 0
  /\ remaining = {}
  /\ groups = <<>>
  /\ hash_pos = 1
  /\ hash_groups = <<>>
  /\ true_dups = HashClassify(SeqOfSet(DOMAIN candidates), candidates, <<>>)
  /\ differences = ComputeDifferences(candidates, true_dups)
  /\ mtime \in Mtimes
  /\ dup_doc = DuplicatesDocument(true_dups, mtime)
  /\ Len(dup_doc.duplicates) = 1
  /\ Len(dup_doc.duplicates[1].paths) = 2
  /\ diff_doc = DifferencesDocument(differences, mtime)
  /\ OperatorIdle

\* The deleter alone, on a tree that may have changed since it was classified.
NextScenario == DeleteCommand \/ DeleteAnswer \/ Outside

SpecScenario == InitScenario /\ [][NextScenario]_vars

\* The texts of the log lines that begin with SUMMARY, and of those that give the
\* number of deleted files.
BeginsWithSummary(line) ==
  line[1] \in {"SUMMARY:", "SUMMARY: {} files would be deleted",
               "SUMMARY: {} files would be recovered"}
GivesFilesDeleted(line, n) == line[1] = "  Files deleted: {}" /\ line[2] = n
LinesWhere(P(_)) == {i \in 1..Len(log_file) : P(log_file[i])}
IsDeletedLine(line) == line[1] = "  DELETED: {}"

\* The scenario: the first run is a confirmed deletion over one record of two
\* paths with newest_index = 1, both files exist, and no call fails.
ScenarioRan ==
  /\ Ended("delete", "executed")
  /\ runs = 1
  /\ Confirmed(response)
  /\ Len(Records) = 1
  /\ Len(Records[1].paths) = 2
  /\ Records[1].newest_index = 1
  /\ \A p \in Range(Records[1].paths) : exists(files0, p)
  /\ failed = <<>>

\* The run removes paths[0] and nothing else, and logs one DELETED line.
ScenarioEffect ==
  /\ fs_ops = <<<<"remove", Records[1].paths[1]>>>>
  /\ ~exists(files, Records[1].paths[1])
  /\ \A p \in Paths \ {Records[1].paths[1]} : files[p] = files0[p]
  /\ result = <<1, Records[1].size_bytes, <<Records[1].paths[1]>>>>
  /\ Cardinality(LinesWhere(IsDeletedLine)) = 1
  /\ \A i \in LinesWhere(IsDeletedLine) :
       log_file[i] = Msg("  DELETED: {}", Records[1].paths[1], 0, 0)

IsPreviewLine(line) ==
  line[1] \in {"PREVIEW: Files that would be deleted",
               "PREVIEW: Files that would be recovered"}
IsExecutingLine(line) ==
  line[1] \in {"EXECUTING: Deleting duplicate files",
               "EXECUTING: Recovering duplicate files"}

\* C20, as claimed: every deletion and recovery run, whatever dry_run and confirm
\* are, logs its preview, and logs it before it starts executing; up to the end of
\* the preview the filesystem is as the run found it.
C20_PreviewAlwaysRuns ==
  (opc \in {"prompt", "done"} /\ outcome \notin {"exit_1", "raised"}) =>
    /\ \E i \in 1..Len(log_lines) : IsPreviewLine(log_lines[i])
    /\ \A j \in 1..Len(log_lines) :
         IsExecutingLine(log_lines[j]) =>
           \E i \in 1..(j - 1) : IsPreviewLine(log_lines[i])
    /\ (opc = "prompt" \/ outcome = "dry_run") =>
         (files = files0 /\ fs_ops = <<>>)

\* delete_duplicates(confirm=False) of a deleter made with dry_run=False has
\* removed files and has logged no preview.
C20_Witness ==
  /\ Ended("delete", "executed")
  /\ ~dry_run
  /\ ~confirm
  /\ fs_ops # <<>>
  /\ \A i \in 1..Len(log_file) : ~IsPreviewLine(log_file[i])
\* ------------------------------------------------------------------ C21
\* The paths on the failure list of the run that has ended.
FailedPaths == {failed[i][1] : i \in 1..Len(failed)}

\* The run that has ended is an executed recovery that follows an executed
\* recovery with the same selection, and the same paths failed in both.
SecondRecovery ==
  /\ Ended("recover", "executed")
  /\ prior.tool = "recover"
  /\ prior.outcome = "executed"
  /\ prior.selection = <<recover_all, search_string>>
  /\ prior.failed_paths = FailedPaths

\* C21: an executed recovery that follows an executed recovery of the same
\* selection, the sources being what they were, leaves every path with the bytes
\* it had after the first run, recovers the same files and reports the same
\* count as the first run.
C21_RecoveryIdempotent ==
  SecondRecovery =>
    /\ files = files0
    /\ result[1] = Len(prior.files)
    /\ result[3] = prior.files
    /\ \A i \in 1..Len(result[3]) :
         \E g \in RecordIds :
           /\ result[3][i] \in Targets(g)
           /\ files[result[3][i]] = files[Keeper(g)]

\* A second recovery that copied again onto the two targets the first one wrote.
C21_Witness ==
  /\ SecondRecovery
  /\ Len(prior.files) >= 2
  /\ \A i \in 1..Len(prior.files) :
       \E g \in RecordIds : Did(<<"copy", Keeper(g), prior.files[i]>>)
\* ------------------------------------------------------------------ C22
\* The loops of the classification run on: nothing but the end of the work stops
\* the process taking its next step.
SpecClassifyLive == SpecClassify /\ WF_vars(NextClassify)

\* The paths the byte strategy has put in groups of the current key so far.
Grouped == UNION {Range(groups[g]) : g \in 1..Len(groups)}

\* No path is in two groups or twice in one, and no grouped path is still to be
\* compared.
GroupsApart ==
  /\ \A g, h \in 1..Len(groups) : g # h => Range(groups[g]) \cap Range(groups[h]) = {}
  /\ \A g \in 1..Len(groups) : Cardinality(Range(groups[g])) = Len(groups[g])
  /\ Grouped \cap remaining = {}
  /\ Grouped \cup remaining \subseteq Range(candidates[cur_key])

\* One round takes the pivot and the paths that compared equal to it, at least
\* the pivot, out of `remaining`; they are the new group when there are several.
RoundShrinks ==
  /\ remaining' \subseteq remaining
  /\ remaining' # remaining
  /\ IF groups' # groups
     THEN /\ groups' = Append(groups, groups'[Len(groups')])
          /\ Range(groups'[Len(groups')]) = remaining \ remaining'
     ELSE Cardinality(remaining \ remaining') = 1

\* C22: under the byte strategy, whatever comparisons fail, no path is ever in
\* two groups, every round removes the pivot and the paths that compared equal
\* to it from the remaining set, and the grouping of a key comes to its end.
C22_ByteGroupingTerminates ==
  /\ [](pc = "byte" => GroupsApart)
  /\ [][pc = "byte" => RoundShrinks]_vars
  /\ (pc = "byte") ~> (pc = "next_key")

\* The byte strategy has finished a key of three readable copies of which, a
\* comparison having failed, two are a group and the third is in none.
C22_Witness ==
  /\ method = "byte"
  /\ pc = "next_key"
  /\ cur_key \in DOMAIN true_dups
  /\ \E p, q, r \in Range(candidates[cur_key]) :
       /\ Cardinality({p, q, r}) = 3
       /\ {p, q, r} \cap unreadable = {}
       /\ files[p] = files[q] /\ files[q] = files[r]
       /\ \E g \in 1..Len(true_dups[cur_key]) : Range(true_dups[cur_key][g]) = {p, q}
       /\ \A g \in 1..Len(true_dups[cur_key]) : r \notin Range(true_dups[cur_key][g])
\* ------------------------------------------------------------------ C23
\* A result of a strategy with the order of the groups and the order inside
\* them forgotten: key -> set of sets of paths.
AsSets(tdups) ==
  [k \in DOMAIN tdups |-> {Range(tdups[k][g]) : g \in 1..Len(tdups[k])}]

\* What _group_identical_files_hash returns over the candidates when every
\* digest is computed.
HashGrouping == HashClassify(SeqOfSet(DOMAIN candidates), candidates, <<>>)

\* C23: when no read fails, a classification by either strategy ends with the
\* duplicate groups the hash strategy computes over the same candidates, as
\* sets of paths for every key, and with the difference entries that follow
\* from them.
C23_StrategiesAgree ==
  (pc = "classified" /\ ~read_errors) =>
    /\ AsSets(true_dups) = AsSets(HashGrouping)
    /\ differences = ComputeDifferences(candidates, HashGrouping)

\* A byte classification without a failed read has ended with two groups, or
\* with a group and a difference entry.
C23_Witness ==
  /\ pc = "classified"
  /\ ~read_errors
  /\ method = "byte"
  /\ \E k \in DOMAIN true_dups :
       \/ Len(true_dups[k]) = 2
       \/ k \in DOMAIN differences
\* =============================================== compare_files_byte_by_byte
\* The static method on its own, over any two files: the byte sequences of at
\* most MaxLen bytes, files of different lengths included.
ByteSeqs == UNION {[1..n -> 0..MaxByte] : n \in 0..MaxLen}
ComparePaths == {1, 2}

\* Line 93: `with open(file1, "rb") as f1, open(file2, "rb") as f2`; an open
\* that raises is caught at line 105.
CompareCall ==
  /\ compared.at # "reading"
  /\ \E file1, file2 \in ComparePaths :
       compared' = [file1 |-> file1, file2 |-> file2, off |-> 0, returned |-> FALSE,
                    at |-> IF CanOpen(file1) /\ CanOpen(file2) THEN "reading"
                           ELSE "returned",
                    raised |-> ~(CanOpen(file1) /\ CanOpen(file2))]
  /\ UNCHANGED <<files, unreadable, file_index, min_file_size, method, hash_cache, pc,
                 candidates, todo, cur_key, remaining, groups, hash_pos, hash_groups,
                 true_dups, differences, opens, read_errors, hashed, svars, ovars>>

\* Mutant: the end of file1 is tested before the chunks are compared.
CompareRead_EofFirst ==
  /\ compared.at = "reading"
  /\ \E ioerr \in BOOLEAN :
       LET chunk1 == ReadChunk(files[compared.file1], compared.off)
           chunk2 == ReadChunk(files[compared.file2], compared.off)
       IN compared' =
            IF ioerr
            THEN [compared EXCEPT !.at = "returned", !.returned = FALSE, !.raised = TRUE]
            ELSE IF chunk1 = <<>>
            THEN [compared EXCEPT !.at = "returned", !.returned = TRUE]
            ELSE IF chunk1 # chunk2
            THEN [compared EXCEPT !.at = "returned", !.returned = FALSE]
            ELSE [compared EXCEPT !.off = @ + ChunkSize]
  /\ UNCHANGED <<files, unreadable, file_index, min_file_size, method, hash_cache, pc,
                 candidates, todo, cur_key, remaining, groups, hash_pos, hash_groups,
                 true_dups, differences, opens, read_errors, hashed, svars, ovars>>

\* Lines 94-104: one pass of `while True`: a chunk of each file, False when they
\* differ, True when they are equal and empty; a read that raises is caught at
\* line 105 and False is returned.
CompareRead ==
  /\ compared.at = "reading"
  /\ \E ioerr \in BOOLEAN :
       LET chunk1 == ReadChunk(files[compared.file1], compared.off)
           chunk2 == ReadChunk(files[compared.file2], compared.off)
       IN compared' =
            IF ioerr
            THEN [compared EXCEPT !.at = "returned", !.returned = FALSE, !.raised = TRUE]
            ELSE IF chunk1 # chunk2
            THEN [compared EXCEPT !.at = "returned", !.returned = FALSE]
            ELSE IF chunk1 = <<>>
            THEN [compared EXCEPT !.at = "returned", !.returned = TRUE]
            ELSE [compared EXCEPT !.off = @ + ChunkSize]
  /\ UNCHANGED <<files, unreadable, file_index, min_file_size, method, hash_cache, pc,
                 candidates, todo, cur_key, remaining, groups, hash_pos, hash_groups,
                 true_dups, differences, opens, read_errors, hashed, svars, ovars>>

\* Two files of any bytes, the other paths absent, at most one file unreadable.
InitCompare ==
  /\ \E b1, b2 \in ByteSeqs :
       files = [p \in Paths |-> IF p = 1 THEN b1 ELSE IF p = 2 THEN b2 ELSE Absent]
  /\ unreadable \in {u \in SUBSET ComparePaths : Cardinality(u) <= 1}
  /\ file_index = <<>>
  /\ min_file_size = 0
  /\ method = "byte"
  /\ hash_cache = [p \in Paths |-> NoDigest]
  /\ opens = [p \in Paths |-> 0]
  /\ read_errors = FALSE
  /\ compared = NoCompare
  /\ hashed = NoRequest
  /\ pc = "start"
  /\ candidates = <<>>
  /\ todo = <<>>
  /\ cur_key = 0
  /\ remaining = {}
  /\ groups = <<>>
  /\ hash_pos = 1
  /\ hash_groups = <<>>
  /\ true_dups = <<>>
  /\ differences = <<>>
  /\ mtime = [p \in Paths |-> 0]
  /\ dup_doc = NoDupDoc
  /\ diff_doc = NoDiffDoc
  /\ OperatorIdle

NextCompare == CompareCall \/ CompareRead

SpecCompare == InitCompare /\ [][NextCompare]_vars

\* ------------------------------------------------------------------ C24
\* The offsets at which the call in `compared` read a pair of chunks before the
\* offset it is at.
OffsetsRead == {o \in 0..(compared.off - 1) : o % ChunkSize = 0}

\* C24: compare_files_byte_by_byte returns True exactly when nothing raised and
\* the two byte sequences are equal, having read both files to their end with
\* every pair of chunks equal; it returns False on an error of either file, and
\* otherwise at the first pair of chunks that differ, which is where one file
\* ends before the other when one is a prefix of the other.
C24_CompareIsByteEquality ==
  compared.at = "returned" =>
    LET b1 == files[compared.file1]
        b2 == files[compared.file2]
    IN /\ compared.returned <=> (~compared.raised /\ b1 = b2)
       /\ compared.raised => ~compared.returned
       /\ compared.returned = compare_files_byte_by_byte(compared.file1, compared.file2,
                                                         compared.raised)
       /\ ~compared.raised =>
            /\ \A o \in OffsetsRead : /\ ReadChunk(b1, o) = ReadChunk(b2, o)
                                      /\ ReadChunk(b1, o) # <<>>
            /\ compared.returned =>
                 /\ ReadChunk(b1, compared.off) = <<>>
                 /\ ReadChunk(b2, compared.off) = <<>>
            /\ ~compared.returned => ReadChunk(b1, compared.off) # ReadChunk(b2, compared.off)

\* False was returned, nothing having raised, for a file that ends before the
\* other one and equals its beginning.
C24_Witness ==
  /\ compared.at = "returned"
  /\ ~compared.returned
  /\ ~compared.raised
  /\ compared.off > 0
  /\ LET b1 == files[compared.file1]
         b2 == files[compared.file2]
     IN /\ Len(b1) < Len(b2)
        /\ b1 = SubSeq(b2, 1, Len(b1))
\* ------------------------------------------------------------------ C25
\* The positions of a record that hold its greatest timestamp.
NewestPositions(r) ==
  {i \in 1..Len(r.dates) : \A j \in 1..Len(r.dates) : r.dates[j] <= r.dates[i]}

\* C25: in every saved record the paths ascend, dates[i] is the timestamp of
\* paths[i], newest_index is the first position holding the greatest timestamp,
\* and it is 0 when every timestamp is empty.
C25_SortedPathsAndFirstNewest ==
  \A r \in SavedRecords :
    /\ \A i, j \in 1..Len(r.paths) : i < j => r.paths[i] < r.paths[j]
    /\ Len(r.dates) = Len(r.paths)
    /\ \A i \in 1..Len(r.paths) : r.dates[i] = get_file_date(r.paths[i], mtime)
    /\ r.newest_index + 1 = Min(NewestPositions(r))
    /\ (\A i \in 1..Len(r.dates) : r.dates[i] = 0) => r.newest_index = 0

\* Saved: a record of a group that was found in descending order, whose greatest
\* timestamp is shared by its second and third path, and a record whose
\* timestamps are all empty.
C25_Witness ==
  /\ pc = "saved"
  /\ \E k \in DOMAIN true_dups : \E g \in 1..Len(true_dups[k]) :
       true_dups[k][g][1] > true_dups[k][g][2]
  /\ \E r \in SavedRecords :
       /\ Len(r.paths) >= 3
       /\ r.newest_index = 1
       /\ r.dates[3] = r.dates[2]
  /\ \E r \in SavedRecords : \A i \in 1..Len(r.dates) : r.dates[i] = 0
\* ======================================================== compute_file_hash
\* The method requested directly, again and again, in one DuplicateFinder:
\* lines 121-137 with the update of hash_cache.
ComputeFileHash ==
  /\ hashed.n < MaxRequests
  /\ \E filepath \in Paths, ioerr \in BOOLEAN :
       LET cached == hash_cache[filepath] # NoDigest
           file_hash == compute_file_hash(filepath, ioerr)
       IN /\ hash_cache' = IF file_hash # NoDigest
                           THEN [hash_cache EXCEPT ![filepath] = file_hash]
                           ELSE hash_cache
          /\ opens' = IF cached THEN opens ELSE [opens EXCEPT ![filepath] = @ + 1]
          /\ read_errors' = (read_errors \/ file_hash = NoDigest)
          /\ hashed' = [filepath |-> filepath, returned |-> file_hash,
                        opened |-> ~cached, n |-> hashed.n + 1]
  /\ UNCHANGED <<files, unreadable, file_index, min_file_size, method, pc,
                 candidates, todo, cur_key, remaining, groups, hash_pos, hash_groups,
                 true_dups, differences, compared, svars, ovars>>

\* A DuplicateFinder over a scanned tree, before any digest was computed.
InitDigest ==
  /\ InitClassify
  /\ method = "hash"
  /\ min_file_size = 0

NextDigest == ComputeFileHash

SpecDigest == InitDigest /\ [][NextDigest]_vars

\* ------------------------------------------------------------------ C26
\* What a request made between two states did of the claim: a cached digest is
\* returned without a read; otherwise the file is handed to one read, and what
\* the request returned is what the cache holds afterwards, nothing for a
\* failure.
RequestServed ==
  LET p == hashed'.filepath
  IN IF hash_cache[p] # NoDigest
     THEN /\ hashed'.returned = hash_cache[p]
          /\ ~hashed'.opened
          /\ opens' = opens
          /\ hash_cache' = hash_cache
     ELSE /\ hashed'.opened
          /\ opens' = [opens EXCEPT ![p] = @ + 1]
          /\ hash_cache' = [hash_cache EXCEPT ![p] = hashed'.returned]

\* C26: the cache holds only digests of files that were read to their end; a
\* path with a cached digest is never read again and keeps its digest; a
\* request for it returns the cached value without opening the file; a failed
\* digest is not cached, so the next request reads the file again.
C26_DigestReadOnce ==
  /\ [](\A p \in Paths : hash_cache[p] # NoDigest =>
          /\ CanOpen(p)
          /\ opens[p] >= 1
          /\ hash_cache[p] = hexdigest(files[p]))
  /\ [][\A p \in Paths : hash_cache[p] # NoDigest =>
          (opens'[p] = opens[p] /\ hash_cache'[p] = hash_cache[p])]_vars
  /\ [][hashed'.n # hashed.n => RequestServed]_vars

\* The third request for a readable path returned the cached digest without a
\* read, the first having failed and the second having read the file.
C26_Witness ==
  /\ hashed.n = 3
  /\ ~hashed.opened
  /\ hashed.returned # NoDigest
  /\ hashed.returned = hash_cache[hashed.filepath]
  /\ opens[hashed.filepath] = 2
  /\ read_errors
  /\ \A p \in Paths \ {hashed.filepath} : opens[p] = 0
\* ------------------------------------------------------------------ C27
\* The paths a deletion run has to act on, and what its log says became of them.
AllNonKeepers == UNION {NonKeepers(g) : g \in RecordIds}
DeletedPaths == {p \in Paths : Logged(Msg("  DELETED: {}", p, 0, 0))}
SkippedPaths == {p \in Paths : Logged(Msg("  SKIP (not found): {}", p, 0, 0))}
DeletedLines == {i \in 1..Len(log_lines) : log_lines[i][1] = "  DELETED: {}"}
RemovedFiles == {p \in Paths : exists(files0, p) /\ ~exists(files, p)}
PreviewedCount ==
  CHOOSE n \in 0..NumPaths : Logged(Msg("SUMMARY: {} files would be deleted", n, 0, 0))

\* C27: in an executed deletion every non-keeper path is deleted, skipped as
\* not found, or on the failure list, and only one of the three; the three
\* numbers add up to the count of the preview; the count returned and logged as
\* 'Files deleted' is the number of DELETED lines and of files removed; the
\* space returned and logged is the sum of size_bytes over the deleted paths.
C27_OutcomesAddUp ==
  (Ended("delete", "executed") /\ confirm) =>
    /\ DeletedPaths \cup SkippedPaths \cup FailedPaths = AllNonKeepers
    /\ DeletedPaths \cap SkippedPaths = {}
    /\ DeletedPaths \cap FailedPaths = {}
    /\ SkippedPaths \cap FailedPaths = {}
    /\ \A p \in AllNonKeepers : Cardinality(OutcomeLines(p)) = 1
    /\ Cardinality(FailedPaths) = Len(failed)
    /\ \E n \in 0..NumPaths : Logged(Msg("SUMMARY: {} files would be deleted", n, 0, 0))
    /\ Cardinality(DeletedPaths) + Cardinality(SkippedPaths) + Len(failed) = PreviewedCount
    /\ result[1] = Cardinality(DeletedLines)
    /\ result[1] = Cardinality(RemovedFiles)
    /\ Range(result[3]) = RemovedFiles
    /\ RemovedFiles = DeletedPaths
    /\ Logged(Msg("  Files deleted: {}", result[1], 0, 0))
    /\ result[2] = SumSeq([i \in 1..Len(result[3]) |->
                             Records[RecordOf(result[3][i])].size_bytes])
    /\ Logged(Msg("  Space freed: {} bytes", result[2], 0, 0))

\* An executed deletion over a record of four copies in which one file was
\* deleted, one was not found and one could not be removed.
C27_Witness ==
  /\ Ended("delete", "executed")
  /\ confirm
  /\ PreviewedCount = 3
  /\ Cardinality(DeletedPaths) = 1
  /\ Cardinality(SkippedPaths) = 1
  /\ Len(failed) = 1
\* ------------------------------------------------------------------ C28
\* The run that has ended is an executed recover-all without a failure that
\* follows an executed deletion without a failure, the tree having been changed
\* by nothing else since it was classified.
RolledBack ==
  /\ Ended("recover", "executed")
  /\ recover_all
  /\ failed = <<>>
  /\ prior.tool = "delete"
  /\ prior.outcome = "executed"
  /\ prior.failed = 0
  /\ drift = 0

\* C28: after a confirmed deletion and a confirmed recover-all over the same
\* records, without failures and without changes from outside, every path of
\* every record exists and holds the bytes it was classified with, which are
\* the keeper's; every file the deletion removed was copied back.
C28_RollbackRestoresTheTree ==
  RolledBack =>
    /\ \A g \in RecordIds : \A p \in Range(Records[g].paths) :
         /\ exists(files, p)
         /\ files[p] = files[Keeper(g)]
         /\ files[p] = Bytes(1, Records[g].size_bytes)
    /\ \A i \in 1..Len(prior.files) :
         /\ ~exists(files0, prior.files[i])
         /\ Did(<<"copy", Keeper(RecordOf(prior.files[i])), prior.files[i]>>)

\* A rollback of a deletion that had removed three files.
C28_Witness ==
  /\ RolledBack
  /\ confirm
  /\ Confirmed(response)
  /\ Len(prior.files) >= 3
  /\ result[1] >= 3
\* ============================================ classification, then the save
\* main of hash_byte_dup_step2 from the loaded index to the written documents,
\* by either strategy, over a tree with timestamps.
InitPipeline ==
  /\ \E ka \in KeyAssignments, c \in ContentAssignments, rev \in BOOLEAN :
       /\ file_index = IndexOf(ka, rev)
       /\ files = [p \in Paths |-> Bytes(c[p], KeySize(ka[p]))]
  /\ unreadable \in {u \in SUBSET Paths : Cardinality(u) <= 1}
  /\ min_file_size = 0
  /\ method \in {"byte", "hash"}
  /\ hash_cache = [p \in Paths |-> NoDigest]
  /\ opens = [p \in Paths |-> 0]
  /\ read_errors = FALSE
  /\ compared = NoCompare
  /\ hashed = NoRequest
  /\ pc = "start"
  /\ candidates = <<>>
  /\ todo = <<>>
  /\ cur_key = 0
  /\ remaining = {}
  /\ groups = <<>>
  /\ hash_pos = 1
  /\ hash_groups = <<>>
  /\ true_dups = <<>>
  /\ differences = <<>>
  /\ mtime \in Mtimes
  /\ dup_doc = NoDupDoc
  /\ diff_doc = NoDiffDoc
  /\ OperatorIdle

NextPipeline == NextClassify \/ SaveResults

SpecPipeline == InitPipeline /\ [][NextPipeline]_vars

\* ------------------------------------------------------------------ C29
\* A list of paths holds no path twice.
NoPathTwice(paths) == Cardinality(Range(paths)) = Len(paths)

\* C29: for either strategy no group holds a path twice, while it is built and
\* when it is stored, so the paths of every saved duplicate record hold no path
\* twice and the keeper's path is at none of the positions the deletion loop
\* acts on.
C29_NoPathTwiceInARecord ==
  /\ \A g \in 1..Len(groups) : NoPathTwice(groups[g])
  /\ \A h \in 1..Len(hash_groups) : NoPathTwice(hash_groups[h][2])
  /\ \A ki \in GroupIds : NoPathTwice(GroupAt(ki))
  /\ \A g \in RecordIds :
       /\ NoPathTwice(Records[g].paths)
       /\ Records[g].newest_index + 1 \in 1..Len(Records[g].paths)
       /\ \A i \in Range(DeletePositions(Records[g])) : Records[g].paths[i] # Keeper(g)

\* Saved by the byte strategy and by the hash strategy: a record of three or
\* more paths whose keeper is not the first.
C29_Witness ==
  /\ pc = "saved"
  /\ \E g \in RecordIds :
       /\ Len(Records[g].paths) >= 3
       /\ Records[g].newest_index >= 1
       /\ Cardinality(Range(DeletePositions(Records[g]))) = Len(Records[g].paths) - 1
  /\ method = "byte"
  /\ read_errors
\* ------------------------------------------------------------------ C30
\* The targets of the recovery run: the selected non-keeper paths of the
\* selected records.
AllTargets == UNION {Targets(g) : g \in {h \in RecordIds : SelectedRecord(h)}}
Keepers == {Keeper(g) : g \in RecordIds}

\* C30: an executed recovery makes no filesystem call but copies of a record's
\* existing source onto its targets and the making of a target's missing
\* directory; no source is changed or removed; every file that changed is a
\* target and holds the bytes of its record's source, whether it existed
\* before or not; nothing is removed.
C30_RecoveryWritesOnlyTargets ==
  Ended("recover", "executed") =>
    /\ \A i \in 1..Len(fs_ops) :
         \/ /\ fs_ops[i][1] = "copy"
            /\ \E g \in RecordIds :
                 /\ SelectedRecord(g)
                 /\ fs_ops[i][2] = Keeper(g)
                 /\ fs_ops[i][3] \in Targets(g)
                 /\ exists(files0, Keeper(g))
                 /\ files[fs_ops[i][3]] = files0[Keeper(g)]
         \/ /\ fs_ops[i][1] = "makedirs"
            /\ fs_ops[i][2] \in AllTargets
            /\ ~exists(files0, fs_ops[i][2])
            /\ fs_ops[i][2] \in dirs
    /\ \A k \in Keepers : files[k] = files0[k]
    /\ AllTargets \cap Keepers = {}
    /\ \A p \in Paths :
         /\ files[p] # files0[p] => p \in AllTargets /\ Did(<<"copy", Keeper(RecordOf(p)), p>>)
         /\ exists(files0, p) => exists(files, p)
    /\ Range(result[3]) \subseteq AllTargets

\* An executed recovery copied the source over a target that existed with
\* other bytes.
C30_Witness ==
  /\ Ended("recover", "executed")
  /\ \E p \in AllTargets :
       /\ exists(files0, p)
       /\ files0[p] # files[p]
       /\ files[p] = files[Keeper(RecordOf(p))]
       /\ Did(<<"copy", Keeper(RecordOf(p)), p>>)

=============================================================================
